---- MODULE Spec2Model ----
(***************************************************************************)
(* A model of mercury-orm: the field descriptors (mercuryorm/fields.py),   *)
(* the entity base class (mercuryorm/base.py), the attachment file         *)
(* (mercuryorm/file.py), the record manager                                *)
(* (mercuryfieldservice/record_manager.py) and the HTTP client             *)
(* (mercuryfieldservice/client/connection.py).                             *)
(*                                                                         *)
(* Python values are records tagged with their type in field t.  A Python  *)
(* str is a sequence of one-character strings, so that split, re.match and *)
(* the choice-key normalisation are computed, not assumed.  Attribute and  *)
(* field names are plain TLA+ strings.                                     *)
(***************************************************************************)
EXTENDS Integers, Sequences, FiniteSets, TLC

VARIABLES
    cls,      \* the field declared on the model class under FieldSpec
    slots,    \* per instance: "unborn" or the instance __dict__
    flast,    \* outcome of the last descriptor operation
    decl,     \* how the entity class declares `name`
    ent,      \* the entity instance: its id and name attributes
    created,  \* how many creates have set the id of the entity
    deleted,  \* the id whose deletion the remote service has accepted, if any
    elast,    \* outcome of the last save()/delete()/assignment on the entity
    mlast,    \* outcome of the last RecordManager call
    att,      \* the attachment file object
    ahist,    \* what has happened to the content of the attachment so far
    alast     \* outcome of the last operation on the attachment

vars == <<cls, slots, flast, decl, ent, created, deleted, elast, mlast, att, ahist, alast>>
fieldVars == <<cls, slots, flast>>
entityVars == <<decl, ent, created, deleted, elast>>
managerVars == <<mlast>>
attachVars == <<att, ahist, alast>>

-----------------------------------------------------------------------------
(* Bounds of the model *)

\* multiselect lists assigned in the model have at most this many elements
MaxListLen == 2
\* the remote service hands out ids 1..NumIds
NumIds == 2
\* a collection fetch returns at most this many records
MaxRecs == 2
\* the most uploads one run of consecutive save() calls is followed for
MaxRunUploads == 2

-----------------------------------------------------------------------------
(* Python values *)

None == [t |-> "NoneType"]
PyStr(s) == [t |-> "str", s |-> s]
PyInt(i) == [t |-> "int", i |-> i]
PyBool(b) == [t |-> "bool", b |-> b]
\* a float, held in tenths: PyFloat(15) is 1.5
PyFloat(x10) == [t |-> "float", x10 |-> x10]
PyList(l) == [t |-> "list", l |-> l]
\* a class object (its type is `type`)
PyClass(n) == [t |-> "type", cname |-> n]
\* an instance of class c that has an id attribute
PyObj(c, id) == [t |-> c, id |-> id]
\* an instance of object: no id attribute
PlainObj == [t |-> "object"]

\* type(value).__name__
TypeOf(v) == v.t

\* isinstance(value, data_type); bool is a subclass of int
IsInstance(v, dt) == v.t = dt \/ (v.t = "bool" /\ dt = "int")

\* hasattr(value, "id")
HasId(v) == "id" \in DOMAIN v

\* a bytes object of n bytes
PyBytes(n) == [t |-> "bytes", n |-> n]

\* bool(value); AttachmentFile.__bool__ is bool(self.id or self.content)
RECURSIVE Truthy(_)
Truthy(v) ==
    CASE v.t = "NoneType" -> FALSE
      [] v.t = "str" -> v.s # <<>>
      [] v.t = "int" -> v.i # 0
      [] v.t = "bool" -> v.b
      [] v.t = "float" -> v.x10 # 0
      [] v.t = "list" -> v.l # <<>>
      [] v.t = "bytes" -> v.n # 0
      [] v.t = "AttachmentFile" -> Truthy(IF Truthy(v.id) THEN v.id ELSE v.content)
      [] OTHER -> TRUE

\* a or b
PyOr(a, b) == IF Truthy(a) THEN a ELSE b

(* Python dicts (an instance __dict__, a JSON object) are functions whose   *)
(* domain is the set of keys present.                                       *)
EmptyDict == [k \in {} |-> None]
\* a dict as a Python value
PyDict(d) == [t |-> "dict", d |-> d]
\* dict.get(key, default)
PyGet(dict, k, default) == IF k \in DOMAIN dict.d THEN dict.d[k] ELSE default
DictSet(d, k, v) == [x \in (DOMAIN d) \cup {k} |-> IF x = k THEN v ELSE d[x]]
DictGet(d, k, default) == IF k \in DOMAIN d THEN d[k] ELSE default

-----------------------------------------------------------------------------
(* Strings *)

Digits == {"0", "1", "2", "3", "4", "5", "6", "7", "8", "9"}

DigitVal(c) ==
    CASE c = "0" -> 0 [] c = "1" -> 1 [] c = "2" -> 2 [] c = "3" -> 3
      [] c = "4" -> 4 [] c = "5" -> 5 [] c = "6" -> 6 [] c = "7" -> 7
      [] c = "8" -> 8 [] c = "9" -> 9

AllDigits(s) == \A i \in DOMAIN s : s[i] \in Digits

RECURSIVE DigitsValue(_)
DigitsValue(s) ==
    IF s = <<>> THEN 0
    ELSE 10 * DigitsValue(SubSeq(s, 1, Len(s) - 1)) + DigitVal(s[Len(s)])

\* value.split("T")[0]: the part before the first "T"
RECURSIVE SplitT0(_)
SplitT0(s) ==
    IF s = <<>> \/ s[1] = "T" THEN <<>>
    ELSE <<s[1]>> \o SplitT0(Tail(s))

\* re.match(pattern + "$", s): "$" also matches just before one final newline
StripFinalNewline(s) ==
    IF s # <<>> /\ s[Len(s)] = "\n" THEN SubSeq(s, 1, Len(s) - 1) ELSE s

\* unidecode(choice) on the characters of the model's alphabet
UnidecodeChar(c) ==
    CASE c = "É" -> <<"E">>
      [] c = "ß" -> <<"s", "s">>
      [] OTHER -> <<c>>

RECURSIVE Unidecode(_)
Unidecode(s) ==
    IF s = <<>> THEN <<>> ELSE UnidecodeChar(s[1]) \o Unidecode(Tail(s))

\* str.lower() on one character
LowerChar(c) ==
    CASE c = "A" -> "a" [] c = "B" -> "b" [] c = "C" -> "c" [] c = "D" -> "d"
      [] c = "E" -> "e" [] c = "F" -> "f" [] c = "G" -> "g" [] c = "H" -> "h"
      [] c = "I" -> "i" [] c = "J" -> "j" [] c = "K" -> "k" [] c = "L" -> "l"
      [] c = "M" -> "m" [] c = "N" -> "n" [] c = "O" -> "o" [] c = "P" -> "p"
      [] c = "Q" -> "q" [] c = "R" -> "r" [] c = "S" -> "s" [] c = "T" -> "t"
      [] c = "U" -> "u" [] c = "V" -> "v" [] c = "W" -> "w" [] c = "X" -> "x"
      [] c = "Y" -> "y" [] c = "Z" -> "z" [] c = "É" -> "é"
      [] OTHER -> c

Lower(s) == [i \in DOMAIN s |-> LowerChar(s[i])]

\* str.replace(" ", "_")
ReplaceSpace(s) == [i \in DOMAIN s |-> IF s[i] = " " THEN "_" ELSE s[i]]

\* unidecode(choice).lower().replace(" ", "_")
NormalizeChoice(s) == ReplaceSpace(Lower(Unidecode(s)))

-----------------------------------------------------------------------------
(* mercuryorm/file.py: the attachment value object *)

\* str(uuid.uuid4()): the name given to a file constructed without one
UuidName == <<"u", "u", "i", "d">>

\* AttachmentFile.__init__ without save_fast
AttachmentFileInit(attachment_id, attachment_url, attachment_size, attachment_filename, content) ==
    [t |-> "AttachmentFile",
     id |-> attachment_id,
     url |-> attachment_url,
     size |-> attachment_size,
     filename |-> PyOr(attachment_filename, PyStr(UuidName)),
     content |-> content,
     saved |-> IF Truthy(content) THEN FALSE ELSE Truthy(attachment_id)]

-----------------------------------------------------------------------------
(* mercuryorm/fields.py: field declarations.  A declared field is a record  *)
(* of the attributes its __init__ sets; cls names the field class, which    *)
(* decides the validate/__set__/__get__ overrides.                          *)

\* Field.__init__
FieldInit(c, name, field_type, data_type) ==
    [cls |-> c, name |-> name, field_type |-> field_type, data_type |-> data_type]

NameField(autoincrement_enabled) ==
    FieldInit("NameField", "name", "name", "str")
        @@ [unique |-> FALSE, autoincrement_enabled |-> autoincrement_enabled]
TextField(name) == FieldInit("TextField", name, "text", "str")
TextareaField(name) == FieldInit("TextareaField", name, "textarea", "str")
CheckboxField(name) == FieldInit("CheckboxField", name, "checkbox", "bool")
DateField(name) == FieldInit("DateField", name, "date", "str")
IntegerField(name) == FieldInit("IntegerField", name, "integer", "int")
DecimalField(name) == FieldInit("DecimalField", name, "decimal", "float")
RegexpField(name, pattern) ==
    FieldInit("RegexpField", name, "regexp", "str") @@ [pattern |-> pattern]

(* choices: a sequence of bare strings [tup |-> FALSE, s |-> chars] or of    *)
(* (key, label) tuples [tup |-> TRUE, key |-> chars, label |-> chars]        *)
Bare(s) == [tup |-> FALSE, s |-> s]
Pair(k, l) == [tup |-> TRUE, key |-> k, label |-> l]

\* possible_keys as DropdownField.__init__ and MultiselectField.__init__ derive it
PossibleKeys(choices) ==
    IF choices # <<>> /\ choices[1].tup
    THEN [i \in DOMAIN choices |-> PyStr(choices[i].key)]
    ELSE [i \in DOMAIN choices |-> PyStr(NormalizeChoice(choices[i].s))]

\* to_representation: dict(choices) for tuple choices (a later pair with the
\* same key wins), else None
ToRepresentation(choices) ==
    IF choices # <<>> /\ choices[1].tup
    THEN PyDict([k \in {PyStr(choices[i].key) : i \in DOMAIN choices} |->
                    LET last == CHOOSE i \in DOMAIN choices :
                                    /\ PyStr(choices[i].key) = k
                                    /\ \A j \in DOMAIN choices :
                                          j > i => PyStr(choices[j].key) # k
                    IN  PyStr(choices[last].label)])
    ELSE None

DropdownField(name, choices) ==
    FieldInit("DropdownField", name, "dropdown", "str")
        @@ [choices |-> choices,
            to_representation |-> ToRepresentation(choices),
            possible_keys |-> PossibleKeys(choices)]

MultiselectField(name, choices) ==
    FieldInit("MultiselectField", name, "multiselect", "list")
        @@ [choices |-> choices,
            to_representation |-> ToRepresentation(choices),
            possible_keys |-> PossibleKeys(choices)]

\* LookupField.__init__: data_type is type(related_object)
LookupField(name, related_object) ==
    FieldInit("LookupField", name, "lookup", TypeOf(related_object))
        @@ [related_object |-> related_object, is_custom_object |-> TRUE]

\* LookupField.to_dict(value)
LookupToDict(f, value) ==
    IF ~HasId(value) THEN [raise |-> "ValueError", ret |-> None]
    ELSE [raise |-> "none", ret |-> PyDict(DictSet(EmptyDict, f.name, value.id))]

\* AttachmentField.__init__ followed by contribute_to_class(cls, name)
AttachmentField(name) ==
    [cls |-> "AttachmentField",
     field_name |-> name,
     field_type |-> "text",
     data_type |-> "AttachmentFile",
     model_file_attribute_name |-> "__" \o name \o "_file",
     id_field_name |-> name \o "_id",
     url_field_name |-> name \o "_url",
     filename_field_name |-> name \o "_filename",
     size_field_name |-> name \o "_size"]

-----------------------------------------------------------------------------
(* mercuryorm/fields.py: validation.  A validate result is                  *)
(* [ok |-> the boolean returned, raise |-> "none" or the exception raised]  *)

Returns(b) == [ok |-> b, raise |-> "none"]
Raises(e) == [ok |-> FALSE, raise |-> e]

\* Field.validate
FieldValidate(f, value) ==
    IF value = None THEN Returns(TRUE)
    ELSE Returns(IsInstance(value, f.data_type))

\* DateField._is_valid_date_format: re.match(r"^\d{4}-\d{2}-\d{2}$", date_str)
IsValidDateFormat(date_str) ==
    LET s == StripFinalNewline(date_str)
    IN  /\ Len(s) = 10
        /\ \A i \in {1, 2, 3, 4, 6, 7, 9, 10} : s[i] \in Digits
        /\ s[5] = "-"
        /\ s[8] = "-"

\* DateField.validate
DateValidate(f, value) ==
    IF value = None THEN Returns(TRUE)
    ELSE IF ~IsInstance(value, "str") THEN Raises("FieldTypeError")
    ELSE IF ~IsValidDateFormat(value.s) THEN Raises("InvalidDateFormatError")
    ELSE Returns(TRUE)

\* the patterns a RegexpField of the model is declared with
PatDigits == "^[0-9]+$"
PatOpenGroup == "("
PatOpenClass == "[0-9"
Patterns == {PatDigits, PatOpenGroup, PatOpenClass}

(* re.compile(pattern): a pattern object, or re.error for an unbalanced     *)
(* parenthesis or an unterminated character set                             *)
ReCompile(pattern) ==
    IF pattern \in {PatOpenGroup, PatOpenClass} THEN Raises("re.error")
    ELSE Returns([t |-> "re.Pattern", pattern |-> pattern])

(* RegexpField._check_pattern: bool(re.compile(pattern)); a pattern object  *)
(* is always true, and the error of re.compile is not caught                *)
CheckPattern(pattern) ==
    LET c == ReCompile(pattern)
    IN  IF c.raise # "none" THEN c ELSE Returns(TRUE)

(* RegexpField.__init__ with its pattern check: the declared field, or the  *)
(* exception that leaves no field object                                    *)
RegexpFieldDeclare(name, pattern) ==
    LET ok == CheckPattern(pattern)
    IN  IF ok.raise # "none" THEN [raise |-> ok.raise, field |-> None]
        ELSE IF ~ok.ok THEN [raise |-> "RegexCompileError", field |-> None]
        ELSE [raise |-> "none", field |-> RegexpField(name, pattern)]

\* RegexpField._check_is_valid_value: re.match(self.pattern, value)
CheckIsValidValue(pattern, value) ==
    CASE pattern = PatDigits ->
            LET s == StripFinalNewline(value) IN s # <<>> /\ AllDigits(s)

\* RegexpField.validate
RegexpValidate(f, value) ==
    IF value = None THEN Returns(TRUE)
    ELSE IF ~IsInstance(value, "str") THEN Raises("FieldTypeError")
    ELSE IF ~CheckIsValidValue(f.pattern, value.s) THEN Raises("InvalidRegexError")
    ELSE Returns(TRUE)

\* value in self.possible_keys
InKeys(value, possible_keys) ==
    \E i \in DOMAIN possible_keys : possible_keys[i] = value

\* DropdownField.validate
DropdownValidate(f, value) ==
    IF value = None THEN Returns(TRUE)
    ELSE IF ~IsInstance(value, "str") THEN Raises("FieldTypeError")
    ELSE IF f.possible_keys # <<>> /\ ~InKeys(value, f.possible_keys)
         THEN Raises("InvalidChoiceError")
    ELSE Returns(TRUE)

\* MultiselectField.validate
MultiselectValidate(f, value) ==
    IF value = None THEN Returns(TRUE)
    ELSE IF ~IsInstance(value, "list") THEN Raises("FieldTypeError")
    ELSE IF \E i \in DOMAIN value.l :
                f.possible_keys # <<>> /\ ~InKeys(value.l[i], f.possible_keys)
         THEN Raises("InvalidChoiceError")
    ELSE Returns(TRUE)

\* self.validate(value), dispatched on the field class
Validate(f, value) ==
    CASE f.cls = "DateField" -> DateValidate(f, value)
      [] f.cls = "RegexpField" -> RegexpValidate(f, value)
      [] f.cls = "DropdownField" -> DropdownValidate(f, value)
      [] f.cls = "MultiselectField" -> MultiselectValidate(f, value)
      [] OTHER -> FieldValidate(f, value)

-----------------------------------------------------------------------------
(* mercuryorm/fields.py: the descriptors.  d is the instance __dict__; a    *)
(* __set__ result is [raise |-> "none" or the exception, d |-> the __dict__  *)
(* afterwards]; a __get__ result is [ret |-> the value, d |-> the __dict__]. *)

\* Field.__set__ storing the value whatever validate returns
FieldSetUnchecked(f, d, value) ==
    LET r == Validate(f, value)
    IN  IF r.raise # "none" THEN [raise |-> r.raise, d |-> d]
        ELSE [raise |-> "none", d |-> DictSet(d, f.name, value)]

\* Field.__set__ storing the value before it validates
FieldSetThenValidate(f, d, value) ==
    LET r == Validate(f, value)
    IN  IF r.raise # "none" THEN [raise |-> r.raise, d |-> DictSet(d, f.name, value)]
        ELSE IF ~r.ok
        THEN [raise |-> "FieldTypeError", d |-> DictSet(d, f.name, value)]
        ELSE [raise |-> "none", d |-> DictSet(d, f.name, value)]

\* Field.__set__
FieldSet(f, d, value) ==
    LET r == Validate(f, value)
    IN  IF r.raise # "none" THEN [raise |-> r.raise, d |-> d]
        ELSE IF ~r.ok THEN [raise |-> "FieldTypeError", d |-> d]
        ELSE [raise |-> "none", d |-> DictSet(d, f.name, value)]

\* Field.__get__
FieldGet(f, d) == [ret |-> DictGet(d, f.name, None), d |-> d]

(* float(value): numbers convert, a str converts when it is a decimal       *)
(* literal (of the model's alphabet: a non-empty run of digits) and raises  *)
(* ValueError otherwise, any other object raises TypeError.                 *)
PyFloatOf(value) ==
    CASE value.t = "float" -> [raise |-> "none", v |-> value]
      [] value.t = "int" -> [raise |-> "none", v |-> PyFloat(10 * value.i)]
      [] value.t = "bool" ->
            [raise |-> "none", v |-> PyFloat(IF value.b THEN 10 ELSE 0)]
      [] value.t = "str" ->
            IF value.s # <<>> /\ AllDigits(value.s)
            THEN [raise |-> "none", v |-> PyFloat(10 * DigitsValue(value.s))]
            ELSE [raise |-> "ValueError", v |-> None]
      [] OTHER -> [raise |-> "TypeError", v |-> None]

\* DecimalField.__set__
DecimalSet(f, d, value) ==
    IF value = None THEN FieldSet(f, d, None)
    ELSE LET c == PyFloatOf(value)
         IN  IF c.raise # "none" THEN [raise |-> c.raise, d |-> d]
             ELSE FieldSet(f, d, c.v)

\* DateField.__set__
DateSet(f, d, value) ==
    IF IsInstance(value, "str")
    THEN FieldSet(f, d, PyStr(SplitT0(value.s)))
    ELSE FieldSet(f, d, value)

\* AttachmentField.__set__
AttachmentSet(f, d, value) ==
    IF value # None
    THEN IF IsInstance(value, "AttachmentFile")
         THEN [raise |-> "none",
               d |-> DictSet(DictSet(DictSet(DictSet(DictSet(d,
                        f.model_file_attribute_name, value),
                        f.id_field_name, value.id),
                        f.url_field_name, value.url),
                        f.filename_field_name, value.filename),
                        f.size_field_name, value.size)]
         ELSE [raise |-> "ValueError", d |-> d]
    ELSE [raise |-> "none", d |-> d]

\* AttachmentField.__get__ building the file anew on every read
AttachmentGetUncached(f, d) ==
    LET attach_id == DictGet(d, f.id_field_name, None)
    IN  IF ~Truthy(attach_id) THEN [ret |-> None, d |-> d]
        ELSE [ret |-> AttachmentFileInit(attach_id,
                            DictGet(d, f.url_field_name, None),
                            DictGet(d, f.size_field_name, None),
                            DictGet(d, f.filename_field_name, None), None),
              d |-> d]

\* AttachmentField.__get__ on an instance
AttachmentGet(f, d) ==
    IF f.model_file_attribute_name \notin DOMAIN d
    THEN LET attach_id == DictGet(d, f.id_field_name, None)
             attach_url == DictGet(d, f.url_field_name, None)
             attach_filename == DictGet(d, f.filename_field_name, None)
             attach_size == DictGet(d, f.size_field_name, None)
         IN  IF ~Truthy(attach_id) THEN [ret |-> None, d |-> d]
             ELSE LET file == AttachmentFileInit(attach_id, attach_url,
                                                 attach_size, attach_filename, None)
                  IN  [ret |-> file,
                       d |-> DictSet(d, f.model_file_attribute_name, file)]
    ELSE [ret |-> d[f.model_file_attribute_name], d |-> d]

\* setattr(instance, field_name, value) through the declared field
Set(f, d, value) ==
    CASE f.cls = "DecimalField" -> DecimalSet(f, d, value)
      [] f.cls = "DateField" -> DateSet(f, d, value)
      [] f.cls = "AttachmentField" -> AttachmentSet(f, d, value)
      [] OTHER -> FieldSet(f, d, value)

\* getattr(instance, field_name) through the declared field
Get(f, d) ==
    CASE f.cls = "AttachmentField" -> AttachmentGet(f, d)
      [] OTHER -> FieldGet(f, d)

-----------------------------------------------------------------------------
(* The model classes and the values of the field state machine *)

sEmpty == <<>>
sA == <<"a">>
sB == <<"b">>
sZZ == <<"z", "z">>
sOpA == <<"O", "p", " ", "A">>
sOp_a == <<"o", "p", "_", "a">>
sEB == <<"É", "b">>
sLabelA == <<"L", "a">>
sLabelB == <<"L", "b">>
sDate == <<"2", "0", "2", "3", "-", "0", "7", "-", "1", "5">>
sStamp == sDate \o <<"T", "1", "0", ":", "3", "0", ":", "4", "5", "Z">>
sSlashDate == <<"1", "5", "/", "0", "7", "/", "2", "0", "2", "3">>
sTwelve == <<"1", "2">>
sRelated == <<"r", "e", "l", "a", "t", "e", "d">>

TupleChoices == <<Pair(sA, sLabelA), Pair(sB, sLabelB)>>
BareChoices == <<Bare(sOpA), Bare(sEB)>>
NoChoices == <<>>

RelatedInstance == PyObj("Related", PyInt(1))
RelatedClass == PyClass("Related")

\* the field a model class of the state machine declares as attribute f
Decls ==
    { NameField(FALSE), TextField("f"), TextareaField("f"), CheckboxField("f"),
      DateField("f"), IntegerField("f"), DecimalField("f"),
      RegexpField("f", PatDigits),
      DropdownField("f", TupleChoices), DropdownField("f", BareChoices),
      DropdownField("f", NoChoices),
      MultiselectField("f", TupleChoices), MultiselectField("f", BareChoices),
      MultiselectField("f", NoChoices),
      LookupField("f", RelatedClass), LookupField("f", RelatedInstance),
      LookupField("f", PyStr(sRelated)),
      AttachmentField("f") }

ChoiceDecls == {f \in Decls : f.cls \in {"DropdownField", "MultiselectField"}}

\* the attribute the declared field is bound to
AttrName(f) == IF f.cls = "AttachmentField" THEN f.field_name ELSE f.name

ListElems == {PyStr(sA), PyStr(sZZ)}

RECURSIVE SeqsUpTo(_, _)
SeqsUpTo(S, n) ==
    IF n = 0 THEN {<<>>}
    ELSE LET shorter == SeqsUpTo(S, n - 1)
         IN  shorter \cup {Append(q, x) : q \in shorter, x \in S}

Lists == {PyList(l) : l \in SeqsUpTo(ListElems, MaxListLen)}
            \cup {PyList(<<PyInt(3)>>), PyList(<<PyStr(sOp_a)>>)}

SavedFile == AttachmentFileInit(PyInt(7), PyStr(sA), PyInt(3), PyStr(sB), None)
OtherFile == AttachmentFileInit(PyInt(8), None, None, None, None)
LocalFile == AttachmentFileInit(None, None, None, PyStr(sB), PyBytes(2))

\* the values the state machine assigns
Values ==
    { None, PyStr(sEmpty), PyStr(sA), PyStr(sZZ), PyStr(sOpA), PyStr(sOp_a),
      PyStr(sDate), PyStr(sStamp), PyStr(sSlashDate), PyStr(sDate \o <<"\n">>),
      PyStr(sTwelve), PyStr(sRelated),
      PyInt(3), PyBool(TRUE), PyFloat(15),
      RelatedInstance, RelatedClass, PyObj("Other", PyInt(2)), PlainObj,
      SavedFile, OtherFile, LocalFile }
        \cup Lists

Inst == {1, 2}

\* an instance that has not been constructed
Unborn == [unborn |-> TRUE]
Alive(i) == "id" \in DOMAIN slots[i]

FieldIdle ==
    /\ cls = TextField("f")
    /\ slots = [i \in Inst |-> Unborn]
    /\ flast = [op |-> "init", inst |-> 0, arg |-> None, raise |-> "none",
                ret |-> None]

\* a model class declaring one field is defined; no instance exists yet
FieldsInit ==
    /\ cls \in Decls
    /\ slots = [i \in Inst |-> Unborn]
    /\ flast = [op |-> "init", inst |-> 0, arg |-> None, raise |-> "none",
                ret |-> None]

(* CustomObject.__init__ called with the keyword f=value: id and name        *)
(* are set to None, then every declared field is set from kwargs.  An        *)
(* exception leaves no new object.                                           *)
CustomObjectInit(f, value) ==
    LET d0 == DictSet(DictSet(EmptyDict, "id", None), "name", None)
    IN  Set(f, d0, value)

Construct(i, value) ==
    LET r == CustomObjectInit(cls, value)
    IN  /\ slots' = IF r.raise = "none" THEN [slots EXCEPT ![i] = r.d] ELSE slots
        /\ flast' = [op |-> "construct", inst |-> i, arg |-> value,
                     raise |-> r.raise, ret |-> None]
        /\ UNCHANGED cls

\* instance.f = value
Assign(i, value) ==
    /\ Alive(i)
    /\ LET r == Set(cls, slots[i], value)
       IN  /\ slots' = [slots EXCEPT ![i] = r.d]
           /\ flast' = [op |-> "assign", inst |-> i, arg |-> value,
                        raise |-> r.raise, ret |-> None]
    /\ UNCHANGED cls

\* instance.f
Read(i) ==
    /\ Alive(i)
    /\ LET r == Get(cls, slots[i])
       IN  /\ slots' = [slots EXCEPT ![i] = r.d]
           /\ flast' = [op |-> "read", inst |-> i, arg |-> None,
                        raise |-> "none", ret |-> r.ret]
    /\ UNCHANGED cls

(* the model class is defined with f = RegexpField("f", pattern), before any *)
(* instance exists; a failed declaration leaves the class as it was         *)
Declare(pattern) ==
    /\ \A i \in Inst : ~Alive(i)
    /\ LET r == RegexpFieldDeclare("f", pattern)
       IN  /\ cls' = IF r.raise = "none" THEN r.field ELSE cls
           /\ flast' = [op |-> "declare", inst |-> 0, arg |-> None,
                        raise |-> r.raise, ret |-> None, pattern |-> pattern]
    /\ UNCHANGED slots

\* the values a fetched record brings for the companion slots of an attachment
CompanionInputs ==
    {[id |-> i, url |-> PyStr(sA), filename |-> n, size |-> PyInt(3)] :
        i \in {None, PyInt(5)}, n \in {None, PyStr(sB)}}

(* setattr(instance, slot, value) on the four companion slots of the        *)
(* Attachment field, as the hydration of a fetched record does: plain       *)
(* attributes, no descriptor                                                *)
SetSlots(i, rec) ==
    /\ Alive(i)
    /\ cls.cls = "AttachmentField"
    /\ slots' = [slots EXCEPT ![i] =
                    DictSet(DictSet(DictSet(DictSet(slots[i],
                        cls.id_field_name, rec.id),
                        cls.url_field_name, rec.url),
                        cls.filename_field_name, rec.filename),
                        cls.size_field_name, rec.size)]
    /\ flast' = [op |-> "setattr", inst |-> i, arg |-> None, raise |-> "none",
                 ret |-> None]
    /\ UNCHANGED cls

sZenPrefix == <<"z", "e", "n", ":", "c", "u", "s", "t", "o", "m", "_", "o", "b", "j", "e", "c", "t", ":">>

\* the characters of the class names of the model
NameChars(n) ==
    CASE n = "Related" -> <<"R", "e", "l", "a", "t", "e", "d">>
      [] n = "Other" -> <<"O", "t", "h", "e", "r">>
      [] n = "type" -> <<"t", "y", "p", "e">>
      [] n = "str" -> <<"s", "t", "r">>
      [] n = "object" -> <<"o", "b", "j", "e", "c", "t">>

\* obj.__class__.__name__: of a class object it is the name of its metaclass
ClassOfName(obj) == NameChars(TypeOf(obj))

\* str.capitalize() on the field names of the model
Capitalize(n) == CASE n = "f" -> "F" [] OTHER -> n

\* mercuryorm LookupField.to_zendesk
LookupToZendesk(f) ==
    LET target_type ==
            IF IsInstance(f.related_object, "str")
            THEN sZenPrefix \o f.related_object.s
            ELSE sZenPrefix \o Lower(ClassOfName(f.related_object))
    IN  [raise |-> "none",
         ret |-> [type |-> "lookup", relationship_target_type |-> target_type,
                  key |-> f.name, title |-> Capitalize(f.name)]]

(* mercuryfieldservice LookupField.to_zendesk: related_object.__name__,     *)
(* which a class object has and an instance has not                         *)
ServiceLookupToZendesk(f) ==
    IF IsInstance(f.related_object, "str")
    THEN [raise |-> "none",
          ret |-> [type |-> "lookup",
                   relationship_target_type |-> sZenPrefix \o f.related_object.s,
                   key |-> f.name, title |-> Capitalize(f.name)]]
    ELSE IF IsInstance(f.related_object, "type")
    THEN [raise |-> "none",
          ret |-> [type |-> "lookup",
                   relationship_target_type |->
                        sZenPrefix \o Lower(NameChars(f.related_object.cname)),
                   key |-> f.name, title |-> Capitalize(f.name)]]
    ELSE [raise |-> "AttributeError", ret |-> None]

\* type(instance).f.to_zendesk() on the declared Lookup field
ToZendesk ==
    /\ cls.cls = "LookupField"
    /\ \E r \in {LookupToZendesk(cls)} :
            flast' = [op |-> "to_zendesk", inst |-> 0, arg |-> None,
                      raise |-> r.raise, ret |-> r.ret,
                      service |-> ServiceLookupToZendesk(cls)]
    /\ UNCHANGED <<cls, slots>>

\* type(instance).f.to_dict(instance.f) on a Lookup field
Serialize(i) ==
    /\ Alive(i)
    /\ cls.cls = "LookupField"
    /\ \E r \in {LookupToDict(cls, Get(cls, slots[i]).ret)} :
            flast' = [op |-> "to_dict", inst |-> i, arg |-> Get(cls, slots[i]).ret,
                      raise |-> r.raise, ret |-> r.ret]
    /\ UNCHANGED <<cls, slots>>

FieldsNext ==
    \/ \E p \in Patterns : Declare(p) /\ UNCHANGED <<entityVars, managerVars, attachVars>>
    \/ Serialize(1) /\ UNCHANGED <<entityVars, managerVars, attachVars>>
    \/ ToZendesk /\ UNCHANGED <<entityVars, managerVars, attachVars>>
    \/ \E rec \in CompanionInputs : SetSlots(1, rec) /\ UNCHANGED <<entityVars, managerVars, attachVars>>
    \/ \E v \in Values : Construct(1, v) /\ UNCHANGED <<entityVars, managerVars, attachVars>>
    \/ \E v \in Values : Assign(1, v) /\ UNCHANGED <<entityVars, managerVars, attachVars>>
    \/ Read(1) /\ UNCHANGED <<entityVars, managerVars, attachVars>>

-----------------------------------------------------------------------------
(* mercuryorm/base.py: the two serialisations of an entity, on instances of *)
(* a model class that declares one field.                                   *)

\* the keys of default_fields in to_dict and to_save
DefaultFieldNames ==
    {"id", "name", "created_at", "updated_at", "created_by_user_id",
     "updated_by_user_id", "external_id"}

\* getattr(self, k, None): through the descriptor when k is the declared field
GetAttr(f, d, k) == IF k = AttrName(f) THEN Get(f, d).ret ELSE DictGet(d, k, None)

\* default_fields keeping the keys whose value is None
DefaultFieldsWithNone(f, d) == [k \in DefaultFieldNames |-> GetAttr(f, d, k)]

\* default_fields after the entries whose value is None are dropped
DefaultFields(f, d) ==
    [k \in {x \in DefaultFieldNames : GetAttr(f, d, x) # None} |-> GetAttr(f, d, k)]

\* {**a, **b}
Merge(a, b) ==
    [k \in (DOMAIN a) \cup (DOMAIN b) |-> IF k \in DOMAIN b THEN b[k] ELSE a[k]]

\* CustomObject.to_dict; reading the field may cache an attachment file
ToDict(f, d) ==
    [raise |-> "none",
     ret |-> Merge([k \in {AttrName(f)} |-> Get(f, d).ret], DefaultFields(f, d)),
     d |-> Get(f, d).d]

\* DropdownField.get_to_representation for the stored value
DropdownGetToRepresentation(f, value) ==
    IF value = None THEN None
    ELSE IF Truthy(f.to_representation)
    THEN PyDict([k \in {"value", "label"} |->
                    IF k = "value" THEN value ELSE f.to_representation.d[value]])
    ELSE PyDict([k \in {"value", "label"} |-> value])

\* MultiselectField.get_to_representation for the stored value
MultiselectGetToRepresentation(f, value) ==
    IF value = None THEN None
    ELSE PyList([i \in DOMAIN value.l |->
                    DropdownGetToRepresentation(f, value.l[i])])

(* CustomObject.to_save: for a Dropdown or Multiselect field holding a      *)
(* value it calls get_to_save on the field, which no field class defines.   *)
ToSave(f, d) ==
    IF f.cls \in {"DropdownField", "MultiselectField"}
    THEN IF Get(f, d).ret # None
         THEN [raise |-> "AttributeError", ret |-> None, d |-> d]
         ELSE [raise |-> "none",
               ret |-> Merge([k \in {AttrName(f)} |-> None], DefaultFields(f, d)),
               d |-> d]
    ELSE ToDict(f, d)

\* the values given to system attributes
SystemValues == {None, PyInt(1)}

\* instance.key = value for a system attribute that is no declared field
SetAttr(i, key, value) ==
    /\ Alive(i)
    /\ key # AttrName(cls)
    /\ slots' = [slots EXCEPT ![i] = DictSet(slots[i], key, value)]
    /\ flast' = [op |-> "setattr", inst |-> i, arg |-> value, raise |-> "none",
                 ret |-> None]
    /\ UNCHANGED cls

\* instance.to_dict()
DoToDict(i) ==
    /\ Alive(i)
    /\ \E r \in {ToDict(cls, slots[i])} :
          /\ slots' = [slots EXCEPT ![i] = r.d]
          /\ flast' = [op |-> "to_dict", inst |-> i, arg |-> None,
                       raise |-> r.raise, ret |-> r.ret]
    /\ UNCHANGED cls

\* instance.to_save()
DoToSave(i) ==
    /\ Alive(i)
    /\ \E r \in {ToSave(cls, slots[i])} :
          /\ slots' = [slots EXCEPT ![i] = r.d]
          /\ flast' = [op |-> "to_save", inst |-> i, arg |-> None,
                       raise |-> r.raise, ret |-> r.ret]
    /\ UNCHANGED cls

ReprNext ==
    \/ \E v \in Values : Construct(1, v) /\ UNCHANGED <<entityVars, managerVars, attachVars>>
    \/ \E k \in {"id", "name", "created_at"}, v \in SystemValues :
            SetAttr(1, k, v) /\ UNCHANGED <<entityVars, managerVars, attachVars>>
    \/ DoToDict(1) /\ UNCHANGED <<entityVars, managerVars, attachVars>>
    \/ DoToSave(1) /\ UNCHANGED <<entityVars, managerVars, attachVars>>

-----------------------------------------------------------------------------
(* mercuryfieldservice/client/connection.py: the HTTP client.  An HTTP      *)
(* response is [status |-> the status code, json |-> the decoded body]; a   *)
(* call result is [raise |-> "none" or the exception, ret |-> the value     *)
(* returned, status |-> the status of the response].                        *)

\* response.raise_for_status(): HTTPError for a 4xx or 5xx status
RaiseForStatus(http) == http.status >= 400 /\ http.status < 600

\* ZendeskAPIClient.get/post/patch/put: raise_for_status, then response.json()
ClientJson(http) ==
    IF RaiseForStatus(http)
    THEN [raise |-> "HTTPError", ret |-> None, status |-> http.status]
    ELSE [raise |-> "none", ret |-> http.json, status |-> http.status]

\* ZendeskAPIClient.delete: raise_for_status, then response.status_code
ClientDelete(http) ==
    IF RaiseForStatus(http)
    THEN [raise |-> "HTTPError", ret |-> None, status |-> http.status]
    ELSE [raise |-> "none", ret |-> PyInt(http.status), status |-> http.status]

-----------------------------------------------------------------------------
(* mercuryorm/base.py: the entity *)

\* texts that are only compared for equality are held as one chunk
sUnnamed == <<"Unnamed Object">>
sUniqueMsg == <<"Name already exists. Try another one.">>
sOtherMsg == <<"is invalid">>
sErrCreating == <<"Error creating record">>
sErrUpdating == <<"Error updating record">>
sErrDeleting == <<"Error deleting record">>
sN1 == <<"n", "1">>
sN2 == <<"n", "2">>
sAuto == <<"A", "-", "1">>

\* self.__class__.__name__ of the entity class of the model
ClassName == <<"M", "o", "c", "k">>

\* what the entity class declares as `name`: nothing (None) or a field
NameDecls == {None, TextField("name"), NameField(FALSE), NameField(TRUE)}

\* CustomObject.is_namefield_autoincrement
IsNamefieldAutoincrement(name_field) ==
    IF name_field # None /\ name_field.cls = "NameField"
    THEN name_field.autoincrement_enabled
    ELSE FALSE

\* self.name = value: through the declared field, else a plain attribute
SetNameAttr(name_field, d, value) ==
    IF name_field = None
    THEN [raise |-> "none", d |-> DictSet(d, "name", value)]
    ELSE Set(name_field, d, value)

\* the payload name chosen without looking at autoincrement
PayloadNameNoAutoincrement(name_field, d) ==
    PyOr(DictGet(d, "name", None), PyStr(sUnnamed))

\* the "name" entry of the payload save() builds
PayloadName(name_field, d) ==
    IF ~IsNamefieldAutoincrement(name_field)
    THEN PyOr(DictGet(d, "name", None), PyStr(sUnnamed))
    ELSE None

\* "/custom_objects/{type_key}/records" and ".../records/{id}"
RecordsPath(type_key) == [type_key |-> type_key, id |-> None]
RecordPath(type_key, id) == [type_key |-> type_key, id |-> id]

\* response.get("details", {}).get("base", [{}])[0].get("description", "")
BaseDescription(response) ==
    LET details == PyGet(response, "details", PyDict(EmptyDict))
        base == PyGet(details, "base", PyList(<<PyDict(EmptyDict)>>))
    IN  PyGet(base.l[1], "description", PyStr(sEmpty))

\* the status check reading no status from the response
StatusCodeIgnored(response, default) == PyInt(default)

\* response.get("status_code", default)
StatusCode(response, default) == PyGet(response, "status_code", PyInt(default))

\* save() taking the create route whatever the id
IsUnsavedAlways(d) == TRUE

\* not hasattr(self, "id") or not self.id
IsUnsaved(d) == "id" \notin DOMAIN d \/ ~Truthy(d["id"])

\* save() taking the id of the response before it looks for an error in it
SaveOfEager(class_name, name_field, d, http) ==
    LET call == ClientJson(http)
        reqs == <<[method |-> IF IsUnsaved(d) THEN "POST" ELSE "PATCH",
                   path |-> IF IsUnsaved(d) THEN RecordsPath(Lower(class_name))
                            ELSE RecordPath(Lower(class_name), d["id"])]>>
        d1 == IF call.raise = "none" /\ "custom_object_record" \in DOMAIN call.ret.d
              THEN DictSet(d, "id", call.ret.d["custom_object_record"].d["id"])
              ELSE d
        failed == \/ call.raise # "none"
                  \/ BaseDescription(call.ret) = PyStr(sUniqueMsg)
                  \/ StatusCode(call.ret, 201) \notin {PyInt(200), PyInt(201)}
    IN  [reqs |-> reqs, sent |-> PayloadName(name_field, d),
         raise |-> IF call.raise # "none" THEN call.raise
                   ELSE IF failed THEN "CreateRecordError" ELSE "none",
         carried |-> None, ret |-> IF failed THEN None ELSE call.ret, d |-> d1]

(* CustomObject.save() on the instance with __dict__ d, the remote service  *)
(* answering the one request with http.  The result is the requests         *)
(* issued, the name sent, the exception raised (with what it carries), the  *)
(* value returned and the __dict__ afterwards.                              *)
SaveOf(class_name, name_field, d, http) ==
    LET sent == PayloadName(name_field, d)
        type_key == Lower(class_name)
    IN  IF IsUnsaved(d)
        THEN LET call == ClientJson(http)
                 reqs == <<[method |-> "POST", path |-> RecordsPath(type_key)]>>
                 response == call.ret
             IN  IF call.raise # "none"
                 THEN [reqs |-> reqs, sent |-> sent, raise |-> call.raise,
                       carried |-> PyInt(call.status), ret |-> None, d |-> d]
                 ELSE IF BaseDescription(response) = PyStr(sUniqueMsg)
                 THEN [reqs |-> reqs, sent |-> sent,
                       raise |-> "UniqueConstraintError",
                       carried |-> DictGet(d, "name", None), ret |-> None, d |-> d]
                 ELSE IF StatusCode(response, 201) # PyInt(201)
                 THEN [reqs |-> reqs, sent |-> sent, raise |-> "CreateRecordError",
                       carried |-> PyGet(response, "details", PyStr(sErrCreating)),
                       ret |-> None, d |-> d]
                 ELSE IF "custom_object_record" \notin DOMAIN response.d
                 THEN [reqs |-> reqs, sent |-> sent, raise |-> "KeyError",
                       carried |-> None, ret |-> None, d |-> d]
                 ELSE LET rec == response.d["custom_object_record"]
                          d1 == DictSet(d, "id", rec.d["id"])
                          r == SetNameAttr(name_field, d1, rec.d["name"])
                      IN  [reqs |-> reqs, sent |-> sent, raise |-> r.raise,
                           carried |-> None,
                           ret |-> IF r.raise = "none" THEN response ELSE None,
                           d |-> r.d]
        ELSE LET call == ClientJson(http)
                 reqs == <<[method |-> "PATCH",
                            path |-> RecordPath(type_key, d["id"])]>>
                 response == call.ret
             IN  IF call.raise # "none"
                 THEN [reqs |-> reqs, sent |-> sent, raise |-> call.raise,
                       carried |-> PyInt(call.status), ret |-> None, d |-> d]
                 ELSE IF StatusCode(response, 200) # PyInt(200)
                 THEN [reqs |-> reqs, sent |-> sent, raise |-> "UpdateRecordError",
                       carried |-> PyGet(response, "details", PyStr(sErrUpdating)),
                       ret |-> None, d |-> d]
                 ELSE [reqs |-> reqs, sent |-> sent, raise |-> "none",
                       carried |-> None, ret |-> response, d |-> d]

\* save() on an instance of the entity class of the model
Save(name_field, d, http) == SaveOf(ClassName, name_field, d, http)

\* response.get(...) needs a dict: an int has no attribute get
HasGet(response) == response.t = "dict"

\* delete() forgetting the id once the request was accepted
DeleteOfClearingId(class_name, d, http) ==
    LET call == ClientDelete(http)
        reqs == <<[method |-> "DELETE",
                   path |-> RecordPath(class_name, DictGet(d, "id", None))]>>
    IN  IF call.raise # "none"
        THEN [reqs |-> reqs, raise |-> call.raise, carried |-> PyInt(call.status),
              ret |-> None, d |-> d]
        ELSE [reqs |-> reqs, raise |-> "none", carried |-> None, ret |-> call.ret,
              d |-> DictSet(d, "id", None)]

(* CustomObject.delete(): the client's delete returns the status code, an   *)
(* int, and delete() calls response.get on it.                              *)
DeleteOf(class_name, d, http) ==
    LET call == ClientDelete(http)
        reqs == <<[method |-> "DELETE",
                   path |-> RecordPath(class_name, DictGet(d, "id", None))]>>
        response == call.ret
    IN  IF call.raise # "none"
        THEN [reqs |-> reqs, raise |-> call.raise, carried |-> PyInt(call.status),
              ret |-> None, d |-> d]
        ELSE IF ~HasGet(response)
        THEN [reqs |-> reqs, raise |-> "AttributeError", carried |-> None,
              ret |-> None, d |-> d]
        ELSE IF StatusCode(response, 204) # PyInt(204)
        THEN [reqs |-> reqs, raise |-> "DeleteRecordError",
              carried |-> PyGet(response, "description", PyStr(sErrDeleting)),
              ret |-> None, d |-> d]
        ELSE [reqs |-> reqs, raise |-> "none", carried |-> None,
              ret |-> response, d |-> d]

\* delete() on an instance of the entity class of the state machine
Delete(d, http) == DeleteOf(ClassName, d, http)

-----------------------------------------------------------------------------
(* The entity state machine: one instance of one entity class, the remote   *)
(* service answering each request with an HTTP response of its choice.      *)

Json1(k, v) == PyDict(DictSet(EmptyDict, k, v))
Json2(k1, v1, k2, v2) == PyDict(DictSet(DictSet(EmptyDict, k1, v1), k2, v2))
Json3(k1, v1, k2, v2, k3, v3) ==
    PyDict(DictSet(DictSet(DictSet(EmptyDict, k1, v1), k2, v2), k3, v3))

\* the ids the remote service assigns
RemoteIds == {PyInt(i) : i \in 1..NumIds}
\* the canonical names the remote service returns
RemoteNames == {PyStr(sN1), PyStr(sAuto)}

\* {"id": ..., "name": ...}
RecordJson(id, name) == Json2("id", id, "name", name)
RecordJsons == {RecordJson(id, name) : id \in RemoteIds, name \in RemoteNames}

\* {"base": [{"description": text}]} and {"name": [{"description": text}]}
DetailsOn(key, text) == Json1(key, PyList(<<Json1("description", PyStr(text))>>))

\* the bodies the remote service answers a create or an update with
SaveBodies ==
    {Json1("custom_object_record", rec) : rec \in RecordJsons}
    \cup {Json2("status_code", PyInt(c), "custom_object_record",
                RecordJson(PyInt(1), PyStr(sN1))) : c \in {200, 201}}
    \cup { Json2("status_code", PyInt(422), "details", DetailsOn("base", sUniqueMsg)),
           Json2("details", DetailsOn("base", sUniqueMsg),
                 "custom_object_record", RecordJson(PyInt(1), PyStr(sN1))),
           Json2("status_code", PyInt(400), "details", DetailsOn("base", sOtherMsg)),
           Json2("status_code", PyInt(422), "details", DetailsOn("name", sOtherMsg)),
           Json1("status_code", PyInt(500)) }

\* the HTTP responses to a create or an update
SaveResponses ==
    {[status |-> 200, json |-> b] : b \in SaveBodies}
    \cup { [status |-> 422,
            json |-> Json2("status_code", PyInt(422),
                           "details", DetailsOn("base", sUniqueMsg))],
           [status |-> 500, json |-> PyDict(EmptyDict)] }

\* the HTTP responses to a delete
DeleteResponses ==
    {[status |-> c, json |-> PyDict(EmptyDict)] : c \in {204, 200, 404, 500}}

\* the names a caller assigns
NameValues == {None, PyStr(sEmpty), PyStr(sN1), PyStr(sN2)}

EntityIdle ==
    /\ decl = None
    /\ ent = [id |-> None, name |-> None]
    /\ created = [n |-> 0, id |-> None]
    /\ deleted = None
    /\ elast = [op |-> "init"]

(* an entity class is defined and one instance exists: constructed without *)
(* keywords, or built from a fetched record, which sets its id and name    *)
EntityInit ==
    /\ decl \in NameDecls
    /\ ent \in {[id |-> None, name |-> None]}
                \cup {[id |-> i, name |-> PyStr(sN1)] : i \in RemoteIds}
    /\ created = [n |-> 0, id |-> None]
    /\ deleted = None
    /\ elast = [op |-> "init"]

\* entity.name = value
SetName(value) ==
    /\ LET r == SetNameAttr(decl, ent, value)
       IN  /\ ent' = r.d
           /\ elast' = [op |-> "setname", arg |-> value, raise |-> r.raise,
                        pre |-> ent]
    /\ UNCHANGED <<decl, created, deleted>>

\* entity.save(), answered by http
DoSave(http) ==
    /\ LET r == Save(decl, ent, http)
       IN  /\ ent' = r.d
           /\ elast' = [op |-> "save", http |-> http, reqs |-> r.reqs,
                        sent |-> r.sent, raise |-> r.raise,
                        carried |-> r.carried, ret |-> r.ret, pre |-> ent]
           /\ created' = IF r.reqs[1].method = "POST" /\ r.d["id"] # ent["id"]
                         THEN [n |-> created.n + 1, id |-> r.d["id"]]
                         ELSE created
    /\ UNCHANGED <<decl, deleted>>

\* entity.delete(), answered by http
DoDelete(http) ==
    /\ LET r == Delete(ent, http)
       IN  /\ ent' = r.d
           /\ elast' = [op |-> "delete", http |-> http, reqs |-> r.reqs,
                        raise |-> r.raise, carried |-> r.carried,
                        ret |-> r.ret, pre |-> ent]
           /\ deleted' = IF r.reqs # <<>> /\ ~RaiseForStatus(http)
                             /\ Truthy(DictGet(ent, "id", None))
                         THEN ent["id"]
                         ELSE deleted
    /\ UNCHANGED <<decl, created>>

EntityNext ==
    \/ \E v \in NameValues : SetName(v) /\ UNCHANGED <<fieldVars, managerVars, attachVars>>
    \/ \E h \in SaveResponses : DoSave(h) /\ UNCHANGED <<fieldVars, managerVars, attachVars>>
    \/ \E h \in DeleteResponses : DoDelete(h) /\ UNCHANGED <<fieldVars, managerVars, attachVars>>

-----------------------------------------------------------------------------
(* mercuryorm/file.py: the operations of an attachment file.  An upload is  *)
(* answered by an HTTP response of the remote service's choice.             *)

\* ZendeskAPIClient.upload_file: raises on a non-2xx status, else the JSON
ClientUploadFile(http) == ClientJson(http)

\* FileManagerZendesk.upload
FileManagerUpload(http) == ClientUploadFile(http)

\* FileManagerZendesk.send_to_ticket: a PUT of the comment with the token
FileManagerSendToTicket(ticket_id, token, comment, http) ==
    [req |-> [method |-> "PUT", ticket_id |-> ticket_id,
              body |-> [body |-> comment, uploads |-> <<token>>]],
     call |-> ClientJson(http)]

\* hasattr(self, "token"): the attribute exists once save() has set it
HasToken(a) == "token" \in DOMAIN a

\* the test of save() that takes any content for bytes
ContentIsBytesUnchecked(a) == TRUE

\* isinstance(self.content, bytes)
ContentIsBytes(a) == IsInstance(a.content, "bytes")

\* the test of save() that uploads whatever saved says
NeedsUploadAlways(a) == TRUE

\* not self.saved
NeedsUpload(a) == ~a.saved

(* AttachmentFile.save(): the attributes are assigned one by one from the   *)
(* upload data, so a response lacking a key leaves those before it set.     *)
AttachmentFileSave(a, http) ==
    IF ~NeedsUpload(a)
    THEN [reqs |-> <<>>, raise |-> "none", a |-> a, uploaded |-> FALSE]
    ELSE IF ~ContentIsBytes(a)
    THEN [reqs |-> <<>>, raise |-> "ValueError", a |-> a, uploaded |-> FALSE]
    ELSE LET call == FileManagerUpload(http)
             reqs == <<[method |-> "UPLOAD", filename |-> a.filename,
                        content |-> a.content]>>
         IN  IF call.raise # "none"
             THEN [reqs |-> reqs, raise |-> call.raise, a |-> a,
                   uploaded |-> FALSE]
             ELSE IF "upload" \notin DOMAIN call.ret.d
             THEN [reqs |-> reqs, raise |-> "KeyError", a |-> a,
                   uploaded |-> FALSE]
             ELSE LET upload_data == call.ret.d["upload"].d
                      attachment == upload_data["attachment"].d
                      a1 == [a EXCEPT !.id = attachment["id"],
                                      !.filename = attachment["file_name"],
                                      !.url = attachment["content_url"],
                                      !.size = attachment["size"]]
                  IN  IF "token" \notin DOMAIN upload_data
                      THEN [reqs |-> reqs, raise |-> "KeyError", a |-> a1,
                            uploaded |-> FALSE]
                      ELSE [reqs |-> reqs, raise |-> "none",
                            a |-> [x \in (DOMAIN a1) \cup {"token"} |->
                                      IF x = "token" THEN upload_data["token"]
                                      ELSE IF x = "saved" THEN TRUE
                                      ELSE a1[x]],
                            uploaded |-> TRUE]

\* AttachmentFile.content = value
AttachmentFileSetContent(a, value) ==
    IF ~IsInstance(value, "bytes")
    THEN [raise |-> "ValueError", a |-> a]
    ELSE [raise |-> "none", a |-> [a EXCEPT !.content = value, !.saved = FALSE]]

(* AttachmentFile.save_with_ticket(ticket_id, comment): save() when not     *)
(* saved, then the attach request with self.token.                          *)
AttachmentFileSaveWithTicket(a, ticket_id, comment, http_upload, http_attach) ==
    LET s == IF ~a.saved THEN AttachmentFileSave(a, http_upload)
             ELSE [reqs |-> <<>>, raise |-> "none", a |-> a, uploaded |-> FALSE]
    IN  IF s.raise # "none"
        THEN [reqs |-> s.reqs, raise |-> s.raise, ret |-> None, a |-> s.a,
              uploaded |-> s.uploaded]
        ELSE IF ~HasToken(s.a)
        THEN [reqs |-> s.reqs, raise |-> "AttributeError", ret |-> None,
              a |-> s.a, uploaded |-> s.uploaded]
        ELSE LET t == FileManagerSendToTicket(ticket_id, s.a["token"], comment,
                                              http_attach)
             IN  [reqs |-> Append(s.reqs, t.req), raise |-> t.call.raise,
                  ret |-> t.call.ret, a |-> s.a, uploaded |-> s.uploaded]

-----------------------------------------------------------------------------
(* The attachment state machine *)

sToken == <<"t", "o", "k">>
sComment == <<"c">>

\* the contents a caller gives: none, empty bytes, bytes, a str
Contents == {None, PyBytes(0), PyBytes(2), PyStr(sA)}

\* the attachment files a caller constructs
NewFiles ==
    {AttachmentFileInit(None, None, None, PyStr(sB), c) : c \in Contents}
    \cup {AttachmentFileInit(PyInt(7), PyStr(sA), PyInt(3), PyStr(sB), c) :
            c \in Contents}

\* {"upload": {"attachment": {...}, "token": ...}} for the attachment id
UploadJson(id) ==
    Json2("attachment",
          PyDict(DictSet(DictSet(DictSet(DictSet(EmptyDict,
                    "id", id), "file_name", PyStr(sB)),
                    "content_url", PyStr(sA)), "size", PyInt(2))),
          "token", PyStr(sToken))

\* the responses to an upload: accepted, accepted without a token, refused
UploadResponses ==
    {[status |-> 201, json |-> Json1("upload", UploadJson(PyInt(9)))],
     [status |-> 201,
      json |-> Json1("upload",
                     Json1("attachment", UploadJson(PyInt(9)).d["attachment"]))],
     [status |-> 422, json |-> Json1("error", PyStr(sOtherMsg))],
     [status |-> 500, json |-> PyDict(EmptyDict)]}

\* the responses to the attach request
AttachResponses ==
    {[status |-> 200, json |-> Json1("ticket", Json1("id", PyInt(1)))],
     [status |-> 404, json |-> Json1("error", PyStr(sOtherMsg))]}

AttachIdle ==
    /\ att = None
    /\ ahist = [uploaded |-> FALSE, run |-> 0, runok |-> 0]
    /\ alast = [op |-> "init"]

\* an attachment file has been constructed; nothing was uploaded for it
AttachInit ==
    /\ att \in NewFiles
    /\ ahist = [uploaded |-> FALSE, run |-> 0, runok |-> 0]
    /\ alast = [op |-> "init"]

\* att.content = value
SetContent(value) ==
    \E r \in {AttachmentFileSetContent(att, value)} :
        /\ att' = r.a
        /\ ahist' = [uploaded |-> IF r.raise = "none" THEN FALSE
                                  ELSE ahist.uploaded,
                     run |-> 0, runok |-> 0]
        /\ alast' = [op |-> "content", arg |-> value, raise |-> r.raise,
                     before |-> att]

\* att.save(), the upload answered by http
DoAttachmentSave(http) ==
    \E r \in {AttachmentFileSave(att, http)} :
        /\ ahist.run + Len(r.reqs) <= MaxRunUploads
        /\ att' = r.a
        /\ ahist' = [uploaded |-> ahist.uploaded \/ r.uploaded,
                     run |-> ahist.run + Len(r.reqs),
                     runok |-> ahist.runok + (IF r.uploaded THEN 1 ELSE 0)]
        /\ alast' = [op |-> "save", http |-> http, reqs |-> r.reqs,
                     raise |-> r.raise, before |-> att]

\* att.save_with_ticket(1, comment), upload and attach answered as given
DoSaveWithTicket(http_upload, http_attach) ==
    \E r \in {AttachmentFileSaveWithTicket(att, PyInt(1), PyStr(sComment),
                                           http_upload, http_attach)} :
        /\ att' = r.a
        /\ ahist' = [uploaded |-> ahist.uploaded \/ r.uploaded,
                     run |-> 0, runok |-> 0]
        /\ alast' = [op |-> "save_with_ticket", http |-> http_upload,
                     http_attach |-> http_attach, reqs |-> r.reqs,
                     raise |-> r.raise, ret |-> r.ret, before |-> att]

AttachNext ==
    \/ \E v \in Contents :
            SetContent(v) /\ UNCHANGED <<fieldVars, entityVars, managerVars>>
    \/ \E h \in UploadResponses :
            DoAttachmentSave(h) /\ UNCHANGED <<fieldVars, entityVars, managerVars>>
    \/ \E h \in UploadResponses, g \in AttachResponses :
            DoSaveWithTicket(h, g)
                /\ UNCHANGED <<fieldVars, entityVars, managerVars>>

-----------------------------------------------------------------------------
(* mercuryfieldservice/record_manager.py: the record manager of one model   *)
(* class, which declares the text field codigo.                             *)

\* self.model.__name__
ModelName == <<"M", "o", "c", "k", "M", "o", "d", "e", "l">>

\* the field the model class declares
ModelField == TextField("codigo")

(* QuerySet.parse_record_fields: the entity of a raw record.  id and name   *)
(* are read from the record, each custom value goes through the setter of   *)
(* its field.                                                               *)
ParseRecordFields(record_data) ==
    LET custom == PyGet(record_data, "custom_object_fields", PyDict(EmptyDict))
        d0 == CustomObjectInit(ModelField, None).d
        d1 == DictSet(DictSet(d0, "id", PyGet(record_data, "id", None)),
                      "name", PyGet(record_data, "name", None))
    IN  Set(ModelField, d1, PyGet(custom, ModelField.name, None))

(* QuerySet.all: one fetch of the collection of the type; the entities of   *)
(* the records in the order the service returned them.                      *)
QuerySetAll(http) ==
    LET call == ClientJson(http)
        reqs == <<[method |-> "GET", path |-> RecordsPath(Lower(ModelName))]>>
    IN  IF call.raise # "none"
        THEN [reqs |-> reqs, raise |-> call.raise, carried |-> http, ret |-> <<>>]
        ELSE LET recs == PyGet(call.ret, "custom_object_records", PyList(<<>>)).l
             IN  [reqs |-> reqs, raise |-> "none", carried |-> None,
                  ret |-> [i \in DOMAIN recs |-> ParseRecordFields(recs[i]).d]]

\* the entity has the value of every criterion
Matches(entity, criteria) ==
    \A k \in DOMAIN criteria : DictGet(entity, k, None) = criteria[k]

RECURSIVE SelectMatching(_, _)
SelectMatching(entities, criteria) ==
    IF entities = <<>> THEN <<>>
    ELSE (IF Matches(Head(entities), criteria) THEN <<Head(entities)>> ELSE <<>>)
            \o SelectMatching(Tail(entities), criteria)

\* QuerySet.filter: the fetched entities that match every criterion, in order
QuerySetFilter(criteria, http) ==
    LET all == QuerySetAll(http)
    IN  [all EXCEPT !.ret = SelectMatching(all.ret, criteria)]

\* RecordManager.all
ManagerAll(http) == QuerySetAll(http)

\* filter handing no criteria on to the QuerySet
ManagerFilterNoCriteria(criteria, http) == QuerySetFilter(EmptyDict, http)

\* RecordManager.filter
ManagerFilter(criteria, http) == QuerySetFilter(criteria, http)

\* the handling of an HTTPError in get(id=...) with 404 left unclassified
ClassifyGetErrorNo404(record_id, http) ==
    IF http.status = 400
    THEN [raise |-> "BadRequestError",
          carried |-> [id |-> record_id, response |-> http.json]]
    ELSE [raise |-> "HTTPError", carried |-> http]

\* RecordManager.get: the handling of an HTTPError raised by the fetch
ClassifyGetError(record_id, http) ==
    IF http.status = 400
    THEN [raise |-> "BadRequestError",
          carried |-> [id |-> record_id, response |-> http.json]]
    ELSE IF http.status = 404
    THEN [raise |-> "NotFoundError",
          carried |-> [model |-> ModelName, id |-> record_id]]
    ELSE [raise |-> "HTTPError", carried |-> http]

\* RecordManager.get(id=record_id), the fetch answered by http
GetById(record_id, http) ==
    LET call == ClientJson(http)
        reqs == <<[method |-> "GET",
                   path |-> RecordPath(Lower(ModelName), record_id)]>>
    IN  IF call.raise # "none"
        THEN LET e == ClassifyGetError(record_id, http)
             IN  [reqs |-> reqs, raise |-> e.raise, carried |-> e.carried,
                  ret |-> None, found |-> <<>>]
        ELSE LET record_data == PyGet(call.ret, "custom_object_record",
                                      PyDict(EmptyDict))
                 record == ParseRecordFields(record_data)
             IN  [reqs |-> reqs, raise |-> record.raise, carried |-> None,
                  ret |-> IF record.raise = "none" THEN record.d ELSE None,
                  found |-> <<>>]

\* the choice among the filtered records that takes the first of several
PickSingleFirst(result) ==
    IF Len(result) = 0
    THEN [raise |-> "ValueError", carried |-> "matching query does not exist",
          ret |-> None]
    ELSE [raise |-> "none", carried |-> None, ret |-> result[1]]

\* RecordManager.get: the choice among the filtered records
PickSingle(result) ==
    IF Len(result) = 0
    THEN [raise |-> "ValueError", carried |-> "matching query does not exist",
          ret |-> None]
    ELSE IF Len(result) > 1
    THEN [raise |-> "ValueError", carried |-> "multiple objects returned",
          ret |-> None]
    ELSE [raise |-> "none", carried |-> None, ret |-> result[1]]

\* RecordManager.get(criteria) without id, the collection fetch answered by http
GetByCriteria(criteria, http) ==
    LET result == ManagerFilter(criteria, http)
    IN  IF result.raise # "none"
        THEN [reqs |-> result.reqs, raise |-> result.raise,
              carried |-> result.carried, ret |-> None, found |-> <<>>]
        ELSE LET p == PickSingle(result.ret)
             IN  [reqs |-> result.reqs, raise |-> p.raise, carried |-> p.carried,
                  ret |-> p.ret, found |-> result.ret]

\* RecordManager.delete(record_id): what the client's delete returns
ManagerDelete(record_id, http) ==
    LET call == ClientDelete(http)
        reqs == <<[method |-> "DELETE",
                   path |-> RecordPath(Lower(ModelName), record_id)]>>
    IN  [reqs |-> reqs, raise |-> call.raise,
         carried |-> IF call.raise # "none" THEN http ELSE None, ret |-> call.ret]

\* the query of last() asking for the oldest record
LastParamsAscending == [sort |-> "updated_at", page_size |-> 1]

\* RecordManager.last: {"sort": "-updated_at", "page[size]": 1}
LastParams == [sort |-> "-updated_at", page_size |-> 1]

\* last() fetching a second time when the first fetch failed
LastRetrying(http) ==
    LET call == ClientJson(http)
        req == [method |-> "GET", path |-> RecordsPath(Lower(ModelName)),
                params |-> LastParams]
    IN  IF call.raise # "none"
        THEN [reqs |-> <<req, req>>, raise |-> call.raise, carried |-> http,
              ret |-> None]
        ELSE [reqs |-> <<req>>, raise |-> "none", carried |-> None, ret |-> None]

\* RecordManager.last(), the fetch answered by http
Last(http) ==
    LET call == ClientJson(http)
        reqs == <<[method |-> "GET", path |-> RecordsPath(Lower(ModelName)),
                   params |-> LastParams]>>
    IN  IF call.raise # "none"
        THEN [reqs |-> reqs, raise |-> call.raise, carried |-> http, ret |-> None]
        ELSE LET recs == PyGet(call.ret, "custom_object_records", None)
             IN  IF Truthy(recs)
                 THEN LET record == ParseRecordFields(recs.l[1])
                      IN  [reqs |-> reqs, raise |-> record.raise, carried |-> None,
                           ret |-> IF record.raise = "none" THEN record.d ELSE None]
                 ELSE [reqs |-> reqs, raise |-> "none", carried |-> None,
                       ret |-> None]

\* what the model class declares as `name`
ModelNameField == TextField("name")

\* self.model(keywords): CustomObject.__init__ sets every declared field
ModelInit(kwargs) ==
    LET r == CustomObjectInit(ModelField, DictGet(kwargs, ModelField.name, None))
    IN  IF r.raise # "none" THEN r
        ELSE SetNameAttr(ModelNameField, r.d, DictGet(kwargs, "name", None))

(* RecordManager.create(keywords), the request of save() answered by http:  *)
(* what it returns is what record.save() returns.                           *)
Create(kwargs, http) ==
    LET record == ModelInit(kwargs)
    IN  IF record.raise # "none"
        THEN [reqs |-> <<>>, raise |-> record.raise, ret |-> None, d |-> None]
        ELSE LET saved == SaveOf(ModelName, ModelNameField, record.d, http)
             IN  [reqs |-> saved.reqs, raise |-> saved.raise, ret |-> saved.ret,
                  d |-> saved.d]

-----------------------------------------------------------------------------
(* The record manager state machine: each call is answered by an HTTP       *)
(* response of the remote service's choice.                                 *)

\* a raw record of the remote service
RawRecord(id, name, codigo) ==
    Json3("id", id, "name", name,
          "custom_object_fields", Json1("codigo", codigo))

RawRecords ==
    {RawRecord(id, PyStr(sN1), c) : id \in RemoteIds, c \in {PyStr(sA), PyStr(sB)}}

\* the responses to a fetch by id
GetResponses ==
    {[status |-> 200, json |-> Json1("custom_object_record", r)] : r \in RawRecords}
    \cup {[status |-> c, json |-> Json1("error", PyStr(sOtherMsg))] :
                c \in {400, 403, 404, 500}}

\* the responses to a fetch of the collection
ListResponses ==
    {[status |-> 200, json |-> Json1("custom_object_records", PyList(l))] :
        l \in SeqsUpTo(RawRecords, MaxRecs)}
    \cup {[status |-> c, json |-> Json1("error", PyStr(sOtherMsg))] : c \in {404, 500}}

\* the criteria a caller passes
Criterias ==
    { EmptyDict,
      DictSet(EmptyDict, "codigo", PyStr(sA)),
      DictSet(EmptyDict, "codigo", PyStr(sZZ)),
      DictSet(EmptyDict, "name", PyStr(sN1)),
      DictSet(DictSet(EmptyDict, "codigo", PyStr(sB)), "id", PyInt(1)) }

\* the keywords a caller passes to create
CreateKwargs ==
    { EmptyDict,
      DictSet(EmptyDict, "codigo", PyStr(sA)),
      DictSet(DictSet(EmptyDict, "codigo", PyStr(sB)), "name", PyStr(sN2)),
      DictSet(EmptyDict, "codigo", PyInt(3)) }

\* RecordManager.__init__: no call made yet
ManagerIdle == mlast = [op |-> "init"]

\* Model.objects.get(id=record_id)
DoGetById(record_id, http) ==
    \E r \in {GetById(record_id, http)} :
        mlast' = [op |-> "get_id", id |-> record_id, criteria |-> EmptyDict,
                  http |-> http, reqs |-> r.reqs, raise |-> r.raise,
                  carried |-> r.carried, ret |-> r.ret, found |-> r.found]

\* Model.objects.get(criteria) with no id among the criteria
DoGetByCriteria(criteria, http) ==
    \E r \in {GetByCriteria(criteria, http)} :
        mlast' = [op |-> "get_by", id |-> None, criteria |-> criteria,
                  http |-> http, reqs |-> r.reqs, raise |-> r.raise,
                  carried |-> r.carried, ret |-> r.ret, found |-> r.found]

\* Model.objects.filter(criteria); all is what all() returns for the same fetch
DoFilter(criteria, http) ==
    \E r \in {ManagerFilter(criteria, http)}, a \in {ManagerAll(http)} :
        mlast' = [op |-> "filter", criteria |-> criteria, http |-> http,
                  reqs |-> r.reqs, raise |-> r.raise, carried |-> r.carried,
                  ret |-> r.ret, all |-> a.ret]

\* Model.objects.all()
DoAll(http) ==
    \E r \in {ManagerAll(http)} :
        mlast' = [op |-> "all", http |-> http, reqs |-> r.reqs,
                  raise |-> r.raise, carried |-> r.carried, ret |-> r.ret]

\* Model.objects.last()
DoLast(http) ==
    \E r \in {Last(http)} :
        mlast' = [op |-> "last", http |-> http, reqs |-> r.reqs,
                  raise |-> r.raise, carried |-> r.carried, ret |-> r.ret]

\* Model.objects.create(keywords)
DoCreate(kwargs, http) ==
    \E r \in {Create(kwargs, http)} :
        mlast' = [op |-> "create", kwargs |-> kwargs, http |-> http,
                  reqs |-> r.reqs, raise |-> r.raise, ret |-> r.ret,
                  record |-> r.d]

\* Model.objects.delete(record_id)
DoManagerDelete(record_id, http) ==
    \E r \in {ManagerDelete(record_id, http)} :
        mlast' = [op |-> "delete", id |-> record_id, http |-> http,
                  reqs |-> r.reqs, raise |-> r.raise, carried |-> r.carried,
                  ret |-> r.ret]

(* A manager keeps nothing between calls (every call fetches anew), so a    *)
(* behaviour is one call on the manager of the model class.                 *)
ManagerNext ==
    \/ \E x \in RemoteIds, h \in GetResponses :
            /\ mlast.op = "init"
            /\ DoGetById(x, h)
            /\ UNCHANGED <<fieldVars, entityVars, attachVars>>
    \/ \E c \in Criterias, h \in ListResponses :
            /\ mlast.op = "init"
            /\ DoGetByCriteria(c, h)
            /\ UNCHANGED <<fieldVars, entityVars, attachVars>>
    \/ \E c \in Criterias, h \in ListResponses :
            /\ mlast.op = "init"
            /\ DoFilter(c, h)
            /\ UNCHANGED <<fieldVars, entityVars, attachVars>>
    \/ \E h \in ListResponses :
            /\ mlast.op = "init"
            /\ DoAll(h)
            /\ UNCHANGED <<fieldVars, entityVars, attachVars>>
    \/ \E h \in ListResponses :
            /\ mlast.op = "init"
            /\ DoLast(h)
            /\ UNCHANGED <<fieldVars, entityVars, attachVars>>
    \/ \E k \in CreateKwargs, h \in SaveResponses :
            /\ mlast.op = "init"
            /\ DoCreate(k, h)
            /\ UNCHANGED <<fieldVars, entityVars, attachVars>>
    \/ \E x \in RemoteIds, h \in DeleteResponses :
            /\ mlast.op = "init"
            /\ DoManagerDelete(x, h)
            /\ UNCHANGED <<fieldVars, entityVars, attachVars>>

-----------------------------------------------------------------------------
(* Properties of the serialisations, checked under ReprSpec *)

\* the current value of attribute k of instance 1
Current(k) ==
    IF k # AttrName(cls) THEN DictGet(slots[1], k, None)
    ELSE IF cls.cls = "AttachmentField"
    THEN DictGet(slots[1], cls.model_file_attribute_name, None)
    ELSE DictGet(slots[1], cls.name, None)

\* the keys a serialisation is to have
ExpectedKeys ==
    {AttrName(cls)} \cup {k \in DefaultFieldNames : Current(k) # None}

(* C14: to_dict returns a mapping whose keys are exactly the declared       *)
(* fields, present even when None, plus the system metadata keys whose      *)
(* value is non-null; each key maps to the entity's current value.          *)
C14_ToDict ==
    flast.op = "to_dict" =>
        /\ flast.raise = "none"
        /\ DOMAIN flast.ret = ExpectedKeys
        /\ \A k \in DOMAIN flast.ret : flast.ret[k] = Current(k)

\* to_dict of an entity with a null field, an id and a null created_at
C14_Witness ==
    /\ flast.op = "to_dict"
    /\ AttrName(cls) = "f"
    /\ Current("f") = None
    /\ "created_at" \in DOMAIN slots[1]
    /\ DOMAIN flast.ret = {"f", "id"}

(* C15: to_save succeeds for every entity whose values were accepted by the *)
(* setters and returns, for a Dropdown or Multiselect field, the result of  *)
(* the representation logic when the value is non-null and null otherwise,  *)
(* for every other field the raw stored value, merged with the non-null     *)
(* system metadata.                                                         *)
C15_Original ==
    flast.op = "to_save" =>
        /\ flast.raise = "none"
        /\ DOMAIN flast.ret = ExpectedKeys
        /\ \A k \in DOMAIN flast.ret \ {AttrName(cls)} : flast.ret[k] = Current(k)
        /\ flast.ret[AttrName(cls)] =
                CASE cls.cls = "DropdownField" ->
                        DropdownGetToRepresentation(cls, Current(AttrName(cls)))
                  [] cls.cls = "MultiselectField" ->
                        MultiselectGetToRepresentation(cls, Current(AttrName(cls)))
                  [] OTHER -> Current(AttrName(cls))

-----------------------------------------------------------------------------
(* Properties of the field descriptors, checked under FieldSpec *)

\* the value an instance holds for the declared field
Stored(f, d) ==
    IF f.cls = "AttachmentField"
    THEN DictGet(d, f.model_file_attribute_name, None)
    ELSE DictGet(d, f.name, None)

\* the last operation set the field of instance 1 to a value
LastWasSet == flast.op \in {"construct", "assign"}

\* the stored value is None or an instance of the declared data_type
StoredHasDataType ==
    Alive(1) =>
        \/ Stored(cls, slots[1]) = None
        \/ IsInstance(Stored(cls, slots[1]), cls.data_type)

\* the last set was given a non-null value that is no instance of data_type
LastSetOfOtherType ==
    /\ LastWasSet
    /\ flast.arg # None
    /\ ~IsInstance(flast.arg, cls.data_type)

(* C2 as stated: every stored value is None or an instance of the field's   *)
(* data_type, and a set of a non-null value of another type raises          *)
(* FieldTypeError, for every field kind.                                    *)
C2_Original ==
    /\ StoredHasDataType
    /\ (LastSetOfOtherType => flast.raise = "FieldTypeError")

(* C2 amended: every stored value is None or an instance of the field's     *)
(* data_type; a set of a non-null value of another type raises              *)
(* FieldTypeError for every field kind but Decimal and Attachment.  A       *)
(* Decimal field converts the value with float() first: a number or a       *)
(* numeric string is accepted and stored as a float, any other value raises *)
(* the conversion's ValueError or TypeError.  An Attachment field raises    *)
(* ValueError.                                                              *)
C2_TypeChecked ==
    /\ StoredHasDataType
    /\ (LastSetOfOtherType =>
            CASE cls.cls = "DecimalField" ->
                    \/ /\ flast.raise = "none"
                       /\ flast.arg.t \in {"int", "bool", "str"}
                       /\ Stored(cls, slots[1]) = PyFloatOf(flast.arg).v
                    \/ /\ flast.raise = "ValueError"
                       /\ flast.arg.t = "str"
                    \/ /\ flast.raise = "TypeError"
                       /\ flast.arg.t \notin {"int", "bool", "str"}
              [] cls.cls = "AttachmentField" -> flast.raise = "ValueError"
              [] OTHER -> flast.raise = "FieldTypeError")

\* an int assigned to a Decimal field was accepted and stored as a float
C2_Witness ==
    /\ cls.cls = "DecimalField"
    /\ flast.op = "assign"
    /\ flast.arg = PyInt(3)
    /\ flast.raise = "none"
    /\ Stored(cls, slots[1]) = PyFloat(30)

(* C3 as stated: for every field kind, assigning None does not raise and a  *)
(* read that follows returns None.                                          *)
C3_Original ==
    (flast.op = "assign" /\ flast.arg = None) =>
        /\ flast.raise = "none"
        /\ Get(cls, slots[1]).ret = None

\* the last set was given a str (Dropdown) / a list (Multiselect)
LastSetOfChoiceShape ==
    /\ LastWasSet
    /\ cls \in ChoiceDecls
    /\ IsInstance(flast.arg, cls.data_type)

\* the value, or every element of the list, is one of possible_keys
AllInKeys(f, value) ==
    IF f.cls = "MultiselectField"
    THEN \A i \in DOMAIN value.l : InKeys(value.l[i], f.possible_keys)
    ELSE InKeys(value, f.possible_keys)

(* C4 as stated: for every Dropdown and Multiselect field, whatever its     *)
(* choice list, a set of a value outside possible_keys raises               *)
(* InvalidChoiceError, a set of a member succeeds and reads back unchanged, *)
(* and the stored value (every element of it) is in possible_keys.          *)
C4_Original ==
    /\ (LastSetOfChoiceShape /\ ~AllInKeys(cls, flast.arg)) =>
            flast.raise = "InvalidChoiceError"
    /\ (LastSetOfChoiceShape /\ AllInKeys(cls, flast.arg)) =>
            /\ flast.raise = "none"
            /\ Get(cls, slots[1]).ret = flast.arg
    /\ (cls \in ChoiceDecls /\ Alive(1) /\ Stored(cls, slots[1]) # None) =>
            AllInKeys(cls, Stored(cls, slots[1]))

-----------------------------------------------------------------------------
(* Properties of the entity, checked under Spec *)

LastWasSave == elast.op = "save"
LastWasDelete == elast.op = "delete"

\* the client returned the body of the response to save()
SaveGotBody == LastWasSave /\ ~RaiseForStatus(elast.http)

C5_Original ==
    (SaveGotBody /\ elast.pre["id"] = None
        /\ BaseDescription(elast.http.json) = PyStr(sUniqueMsg)) =>
            /\ elast.raise = "UniqueConstraintError"
            /\ elast.carried = elast.sent
            /\ ent = elast.pre

\* the body carries a status_code that is not a 2xx one
NonSuccess(response) ==
    /\ "status_code" \in DOMAIN response.d
    /\ response.d["status_code"].i \notin 200..299

C7_Original ==
    LastWasSave =>
        elast.sent =
            IF decl # None /\ decl.cls = "NameField" /\ decl.autoincrement_enabled
            THEN None
            ELSE IF elast.pre["name"] # None THEN elast.pre["name"]
            ELSE PyStr(sUnnamed)

(* C7 amended: the name sent is null when the Name field has autoincrement  *)
(* enabled, else the assigned name when it is a non-empty string, else      *)
(* (no name assigned, or the empty string assigned) "Unnamed Object".       *)
C7_PayloadName ==
    LastWasSave =>
        elast.sent =
            IF decl # None /\ decl.cls = "NameField" /\ decl.autoincrement_enabled
            THEN None
            ELSE IF elast.pre["name"] \notin {None, PyStr(sEmpty)}
                 THEN elast.pre["name"]
            ELSE PyStr(sUnnamed)

\* a save() with autoincrement enabled sent null although a name was assigned
C7_Witness ==
    /\ LastWasSave
    /\ decl = NameField(TRUE)
    /\ elast.pre["name"] = PyStr(sN2)
    /\ elast.sent = None

(* C8 as stated: delete() issues one delete request for the id of the       *)
(* entity; when the remote answers 204 it returns that status without       *)
(* raising, and when the remote answers a non-success status it raises      *)
(* DeleteRecordError.                                                       *)
C8_Original ==
    LastWasDelete =>
        /\ Len(elast.reqs) = 1
        /\ elast.reqs[1].method = "DELETE"
        /\ elast.reqs[1].path.id = elast.pre["id"]
        /\ (elast.http.status = 204 =>
                elast.raise = "none" /\ elast.ret = PyInt(204))
        /\ (elast.http.status \notin 200..299 =>
                elast.raise = "DeleteRecordError")

\* the errors of a failed create that C28 names
CreateFailures == {"UniqueConstraintError", "CreateRecordError", "HTTPError"}

\* the last operation was a save() that took the create route and failed
CreateFailed ==
    /\ LastWasSave
    /\ ~Truthy(elast.pre["id"])
    /\ elast.raise \in CreateFailures

\* the last operation was a save() that took the update route and failed
UpdateFailed ==
    /\ LastWasSave
    /\ Truthy(elast.pre["id"])
    /\ elast.raise # "none"

(* C28: a failed save() leaves the identity of the entity unchanged: when   *)
(* the create route fails (UniqueConstraintError, CreateRecordError or a    *)
(* transport error) id is still None and name is unchanged, so the next     *)
(* save() issues a create again; when the update route fails, id, name and  *)
(* every field value are unchanged; once id has been set by a create, no    *)
(* later save() changes it.                                                 *)
C28_FailedSave ==
    /\ CreateFailed =>
            /\ ent["id"] = None
            /\ ent = elast.pre
            /\ \A h \in SaveResponses : Save(decl, ent, h).reqs[1].method = "POST"
    /\ UpdateFailed => ent = elast.pre
    /\ (created.n >= 1 /\ LastWasSave) => ent["id"] = created.id

\* a create failed on the name constraint and the entity is still unsaved
C28_Witness ==
    /\ CreateFailed
    /\ elast.raise = "UniqueConstraintError"
    /\ elast.reqs[1].method = "POST"
    /\ ent["id"] = None

-----------------------------------------------------------------------------
(* Properties of the record manager, checked under ManagerSpec *)

LastWasGetById == mlast.op = "get_id"
LastWasGetByCriteria == mlast.op = "get_by"

\* the record a successful fetch by id answered with
AnsweredRecord == mlast.http.json.d["custom_object_record"].d

(* C9: get(id=X) fetches that one record and returns the entity built from  *)
(* the response; a not-found response raises NotFoundError carrying the     *)
(* type name and X, a bad-request response raises BadRequestError carrying  *)
(* the error body, and any other transport error propagates unchanged.      *)
C9_GetById ==
    LastWasGetById =>
        /\ mlast.reqs = <<[method |-> "GET",
                           path |-> [type_key |-> Lower(ModelName),
                                     id |-> mlast.id]]>>
        /\ mlast.http.status \in 200..299 =>
                /\ mlast.raise = "none"
                /\ mlast.ret["id"] = AnsweredRecord["id"]
                /\ mlast.ret["name"] = AnsweredRecord["name"]
                /\ mlast.ret["codigo"] =
                        AnsweredRecord["custom_object_fields"].d["codigo"]
        /\ mlast.http.status = 404 =>
                /\ mlast.raise = "NotFoundError"
                /\ mlast.carried = [model |-> ModelName, id |-> mlast.id]
                /\ mlast.ret = None
        /\ mlast.http.status = 400 =>
                /\ mlast.raise = "BadRequestError"
                /\ mlast.carried = [id |-> mlast.id, response |-> mlast.http.json]
                /\ mlast.ret = None
        /\ mlast.http.status \notin (200..299) \cup {400, 404} =>
                /\ mlast.raise = "HTTPError"
                /\ mlast.carried = mlast.http
                /\ mlast.ret = None

\* a fetch by id was answered with not found
C9_Witness ==
    /\ LastWasGetById
    /\ mlast.http.status = 404
    /\ mlast.raise = "NotFoundError"

(* C10: get(criteria) returns a record if and only if filter(criteria)      *)
(* yields exactly one record, and then returns that record; when filter     *)
(* yields none or several it raises an error of one and the same kind.      *)
C10_GetByCriteria ==
    (LastWasGetByCriteria /\ mlast.http.status \in 200..299) =>
        /\ mlast.raise = "none" <=> Len(mlast.found) = 1
        /\ mlast.raise = "none" => mlast.ret = mlast.found[1]
        /\ mlast.raise # "none" =>
                /\ mlast.raise = "ValueError"
                /\ mlast.ret = None

\* filter yielded several records and the call raised
C10_Witness ==
    /\ LastWasGetByCriteria
    /\ Len(mlast.found) > 1
    /\ mlast.raise = "ValueError"

\* the call was answered with a success status
Answered2xx == mlast.http.status \in 200..299

\* the places of the fetched entities that have the value of every criterion
MatchingPlaces(all, criteria) ==
    {i \in DOMAIN all :
        \A k \in DOMAIN criteria : k \in DOMAIN all[i] /\ all[i][k] = criteria[k]}

(* C11: filter(criteria) returns exactly the fetched records that equal     *)
(* every criterion, in the order the server returned them; filter() with no *)
(* criteria returns every fetched record, the sequence all() returns.       *)
C11_FilterExact ==
    (mlast.op = "filter" /\ Answered2xx) =>
        LET places == MatchingPlaces(mlast.all, mlast.criteria)
        IN  /\ mlast.raise = "none"
            /\ Len(mlast.ret) = Cardinality(places)
            /\ \A i \in places :
                    mlast.ret[Cardinality({j \in places : j <= i})] = mlast.all[i]
            /\ mlast.criteria = EmptyDict => mlast.ret = mlast.all

\* a filter kept the second of two fetched records and dropped the first
C11_Witness ==
    /\ mlast.op = "filter"
    /\ Len(mlast.all) = 2
    /\ mlast.ret = <<mlast.all[2]>>
    /\ mlast.all[1] # mlast.all[2]

\* the records of the response to last()
AnsweredRecords == mlast.http.json.d["custom_object_records"].l

(* C12: last() requests exactly one record sorted by updated_at descending; *)
(* it returns None when the returned collection is empty and otherwise the  *)
(* entity built from the first record of the response.                      *)
C12_Last ==
    mlast.op = "last" =>
        /\ mlast.reqs = <<[method |-> "GET",
                           path |-> [type_key |-> Lower(ModelName), id |-> None],
                           params |-> [sort |-> "-updated_at", page_size |-> 1]]>>
        /\ Answered2xx =>
                /\ mlast.raise = "none"
                /\ mlast.ret = None <=> AnsweredRecords = <<>>
                /\ AnsweredRecords # <<>> =>
                        /\ mlast.ret["id"] = AnsweredRecords[1].d["id"]
                        /\ mlast.ret["name"] = AnsweredRecords[1].d["name"]
                        /\ mlast.ret["codigo"] =
                              AnsweredRecords[1].d["custom_object_fields"].d["codigo"]

\* last() was answered with several records and returned the first
C12_Witness ==
    /\ mlast.op = "last"
    /\ Answered2xx
    /\ Len(AnsweredRecords) > 1
    /\ AnsweredRecords[1] # AnsweredRecords[2]
    /\ mlast.ret # None

\* the create request was answered with a created record and no error
CreateAccepted ==
    /\ Answered2xx
    /\ "custom_object_record" \in DOMAIN mlast.http.json.d
    /\ "details" \notin DOMAIN mlast.http.json.d
    /\ "status_code" \in DOMAIN mlast.http.json.d =>
            mlast.http.json.d["status_code"] = PyInt(201)

(* C13: create(fields) constructs an entity from the fields, saves it with  *)
(* exactly one create request and returns that entity, persisted, with its  *)
(* id set.                                                                  *)
C13_Original ==
    (mlast.op = "create" /\ mlast.record # None /\ CreateAccepted) =>
        /\ mlast.reqs = <<[method |-> "POST",
                           path |-> [type_key |-> Lower(ModelName), id |-> None]]>>
        /\ mlast.raise = "none"
        /\ mlast.record["id"] = mlast.http.json.d["custom_object_record"].d["id"]
        /\ mlast.ret = mlast.record

-----------------------------------------------------------------------------
(* Properties of the Date field, checked under FieldSpec *)

\* the strict shape YYYY-MM-DD: ten characters, digits around two dashes
StrictDateShape(s) ==
    /\ Len(s) = 10
    /\ \A i \in {1, 2, 3, 4, 6, 7, 9, 10} : s[i] \in Digits
    /\ s[5] = "-"
    /\ s[8] = "-"

\* the last operation set the Date field of instance 1 to a string
DateSetOfString ==
    /\ cls.cls = "DateField"
    /\ LastWasSet
    /\ IsInstance(flast.arg, "str")

(* C21: assigning a string to a Date field stores only the part before the  *)
(* time of day; the assignment succeeds only when that part has the strict  *)
(* YYYY-MM-DD shape and raises InvalidDateFormatError otherwise             *)
(* (FieldTypeError for a non-string), so a non-null stored Date value       *)
(* always has the YYYY-MM-DD shape.                                         *)
C21_Original ==
    /\ DateSetOfString =>
            IF StrictDateShape(SplitT0(flast.arg.s))
            THEN /\ flast.raise = "none"
                 /\ Stored(cls, slots[1]) = PyStr(SplitT0(flast.arg.s))
            ELSE flast.raise = "InvalidDateFormatError"
    /\ (cls.cls = "DateField" /\ LastWasSet /\ flast.arg # None
            /\ ~IsInstance(flast.arg, "str")) => flast.raise = "FieldTypeError"
    /\ (cls.cls = "DateField" /\ Alive(1) /\ Stored(cls, slots[1]) # None) =>
            StrictDateShape(Stored(cls, slots[1]).s)

-----------------------------------------------------------------------------
(* Properties of the Lookup field, checked under FieldSpec *)

\* the relation target is an entity type, given as the class or an instance
TargetIsEntity == cls.related_object \in {RelatedClass, RelatedInstance}

(* C22: the value of a Lookup field is always None or an object that        *)
(* exposes an id: assigning a non-null value without an id is rejected,     *)
(* assigning an instance of the related entity is accepted, and serialising *)
(* an accepted value yields exactly {field_name: value.id}.                 *)
C22_Original ==
    cls.cls = "LookupField" =>
        /\ Alive(1) =>
                \/ Stored(cls, slots[1]) = None
                \/ HasId(Stored(cls, slots[1]))
        /\ (LastWasSet /\ flast.arg # None /\ ~HasId(flast.arg)) =>
                flast.raise # "none"
        /\ (LastWasSet /\ TargetIsEntity /\ flast.arg = RelatedInstance) =>
                /\ flast.raise = "none"
                /\ Stored(cls, slots[1]) = RelatedInstance
        /\ (flast.op = "to_dict" /\ flast.arg # None) =>
                /\ flast.raise = "none"
                /\ flast.ret = PyDict(DictSet(EmptyDict, cls.name, flast.arg.id))

-----------------------------------------------------------------------------
(* The DateTime field.  A timezone-aware instant is a record of its date,   *)
(* its time of day with microseconds, and its UTC offset in minutes (aware  *)
(* is FALSE for a naive value, which has no offset); the                    *)
(* two wire values are strings, formatted and parsed character by           *)
(* character as datetime.isoformat and datetime.fromisoformat do.           *)

PyDateTime(y, mo, d, h, mi, sec, us, off) ==
    [t |-> "datetime", year |-> y, month |-> mo, day |-> d, hour |-> h,
     minute |-> mi, second |-> sec, microsecond |-> us, aware |-> TRUE,
     utcoffset |-> off]

DigitChars == <<"0", "1", "2", "3", "4", "5", "6", "7", "8", "9">>

\* n written with exactly w decimal digits, zero-padded
RECURSIVE Pad(_, _)
Pad(n, w) ==
    IF w = 0 THEN <<>>
    ELSE Pad(n \div 10, w - 1) \o <<DigitChars[(n % 10) + 1]>>

\* date().isoformat(): YYYY-MM-DD
IsoDate(v) == Pad(v.year, 4) \o <<"-">> \o Pad(v.month, 2) \o <<"-">> \o Pad(v.day, 2)

\* the UTC offset as +HH:MM or -HH:MM
IsoOffset(off) ==
    LET a == IF off < 0 THEN 0 - off ELSE off
    IN  <<IF off < 0 THEN "-" ELSE "+">> \o Pad(a \div 60, 2) \o <<":">>
            \o Pad(a % 60, 2)

\* the time of day written without its offset
IsoTimeNoOffset(v) ==
    Pad(v.hour, 2) \o <<":">> \o Pad(v.minute, 2) \o <<":">> \o Pad(v.second, 2)
        \o (IF v.microsecond = 0 THEN <<>> ELSE <<".">> \o Pad(v.microsecond, 6))

\* the time of day written as a naive time
IsoTimeWithoutOffset(v) == IsoTimeNoOffset(v)

\* timetz().isoformat(): HH:MM:SS[.ffffff]+HH:MM
IsoTime(v) == IsoTimeNoOffset(v) \o IsoOffset(v.utcoffset)

\* isoformat() of the instant
IsoFormat(v) == IsoDate(v) \o <<"T">> \o IsoTime(v)

\* the two wire keys of a DateTime field
TimeKey(name) == name \o "_time"

\* write: the instant decomposed into {name} and {name}_time
DateTimeToWire(name, v) ==
    DictSet(DictSet(EmptyDict, name, PyStr(IsoDate(v))),
            TimeKey(name), PyStr(IsoTime(v)))

\* the part of s from position i on
From(s, i) == SubSeq(s, i, Len(s))

(* datetime.fromisoformat of a date-and-time string; without an offset the  *)
(* value is naive                                                           *)
FromIsoFormat(s) ==
    LET frac == Len(s) >= 20 /\ s[20] = "."
        us == IF frac THEN DigitsValue(SubSeq(s, 21, 26)) ELSE 0
        tz == From(s, IF frac THEN 27 ELSE 20)
        mins == 60 * DigitsValue(SubSeq(tz, 2, 3)) + DigitsValue(SubSeq(tz, 5, 6))
        v == PyDateTime(DigitsValue(SubSeq(s, 1, 4)), DigitsValue(SubSeq(s, 6, 7)),
                        DigitsValue(SubSeq(s, 9, 10)), DigitsValue(SubSeq(s, 12, 13)),
                        DigitsValue(SubSeq(s, 15, 16)), DigitsValue(SubSeq(s, 18, 19)),
                        us, 0)
    IN  IF tz = <<>> THEN [v EXCEPT !.aware = FALSE]
        ELSE [v EXCEPT !.utcoffset = IF tz[1] = "-" THEN 0 - mins ELSE mins]

\* read: the instant reconstructed from the two wire keys of a record
DateTimeFromWire(name, fields) ==
    IF DictGet(fields, name, None) = None \/ DictGet(fields, TimeKey(name), None) = None
    THEN None
    ELSE FromIsoFormat(fields[name].s \o <<"T">> \o fields[TimeKey(name)].s)

DateTimeField(name) == FieldInit("DateTimeField", name, "datetime", "datetime")

\* the instants of the state machine
Instants ==
    {PyDateTime(d[1], d[2], d[3], c[1], c[2], c[3], us, off) :
        d \in {<<2023, 7, 15>>, <<2024, 12, 31>>},
        c \in {<<10, 30, 45>>, <<15, 20, 33>>, <<0, 0, 0>>},
        us \in {0, 187652},
        off \in {0, 330, -180}}

\* the custom_object_fields of the records the remote service returns
WireRecords == {DateTimeToWire("created_at", v) : v \in Instants}

\* a model class declaring created_at = DateTimeField; one instance exists
DateTimeInit ==
    /\ cls = DateTimeField("created_at")
    /\ slots = [i \in Inst |->
                    IF i = 1 THEN CustomObjectInit(DateTimeField("created_at"), None).d
                    ELSE Unborn]
    /\ flast = [op |-> "init", inst |-> 0, arg |-> None, raise |-> "none",
                ret |-> None]

\* instance.created_at = value
DateTimeAssign(i, value) ==
    /\ \E r \in {FieldSet(cls, slots[i], value)} :
            /\ slots' = [slots EXCEPT ![i] = r.d]
            /\ flast' = [op |-> "assign", inst |-> i, arg |-> value,
                         raise |-> r.raise, ret |-> None]
    /\ UNCHANGED cls

\* the instance's instant is written out as its two wire keys
DateTimeWrite(i) ==
    /\ Stored(cls, slots[i]) # None
    /\ flast' = [op |-> "write", inst |-> i, arg |-> Stored(cls, slots[i]),
                 raise |-> "none",
                 ret |-> PyDict(DateTimeToWire(cls.name, Stored(cls, slots[i])))]
    /\ UNCHANGED <<cls, slots>>

\* the instance is filled from the custom fields of a fetched record
DateTimeLoad(i, fields) ==
    /\ slots' = [slots EXCEPT ![i] =
                    DictSet(slots[i], cls.name, DateTimeFromWire(cls.name, fields))]
    /\ flast' = [op |-> "load", inst |-> i, arg |-> PyDict(fields),
                 raise |-> "none", ret |-> None]
    /\ UNCHANGED cls

DateTimeNext ==
    \/ \E v \in Instants \cup {None} :
            DateTimeAssign(1, v) /\ UNCHANGED <<entityVars, managerVars, attachVars>>
    \/ DateTimeWrite(1) /\ UNCHANGED <<entityVars, managerVars, attachVars>>
    \/ \E w \in WireRecords :
            DateTimeLoad(1, w) /\ UNCHANGED <<entityVars, managerVars, attachVars>>

(* Properties of the DateTime field, checked under DateTimeSpec *)

\* the instant that reading back the wire keys of dict w reconstructs
ReadBack(w) == DateTimeFromWire(cls.name, w.d)

(* C25: writing a timezone-aware instant decomposes it into the wire keys   *)
(* {name} (date) and {name}_time (time of day with offset), and reading the *)
(* two keys back reconstructs an equal instant: date, time of day and       *)
(* offset are preserved, and the ISO form of the instant is "<date>T<time>" *)
(* of the wire values.                                                      *)
C25_RoundTrip ==
    /\ flast.op = "write" =>
            /\ DOMAIN flast.ret.d = {cls.name, TimeKey(cls.name)}
            /\ Len(flast.ret.d[cls.name].s) = 10
            /\ ReadBack(flast.ret) = flast.arg
            /\ IsoFormat(flast.arg) =
                    flast.ret.d[cls.name].s \o <<"T">> \o flast.ret.d[TimeKey(cls.name)].s
    /\ flast.op = "load" =>
            /\ PyDict(DateTimeToWire(cls.name, Stored(cls, slots[1]))) = flast.arg
            /\ IsoFormat(Stored(cls, slots[1])) =
                    flast.arg.d[cls.name].s \o <<"T">> \o flast.arg.d[TimeKey(cls.name)].s

\* an instant with microseconds and a negative offset was written out
C25_Witness ==
    /\ flast.op = "write"
    /\ flast.arg.microsecond # 0
    /\ flast.arg.utcoffset < 0
    /\ ReadBack(flast.ret) = flast.arg

-----------------------------------------------------------------------------
(* Two instances of one model class that mirror the same remote record.     *)
(* The class declares the field f and a text field g.                       *)

OtherField == TextField("g")

\* the __dict__ of an instance built from the record with id 1
Mirror(f) ==
    LET d0 == CustomObjectInit(f, None).d
        d1 == Set(OtherField, d0, PyStr(sA)).d
    IN  IF f.cls = "NameField" THEN DictSet(d1, "id", PyInt(1))
        ELSE DictSet(DictSet(d1, "id", PyInt(1)), "name", PyStr(sN1))

\* the values assigned to f: for every field kind some pass and some fail
FrameValues ==
    { None, PyStr(sA), PyStr(sOp_a), PyStr(sStamp), PyStr(sSlashDate),
      PyStr(sTwelve), PyInt(3), PyBool(TRUE), PyList(<<PyStr(sOp_a)>>),
      PyList(<<PyStr(sA), PyStr(sZZ)>>), RelatedInstance, RelatedClass,
      PlainObj, SavedFile }

FrameInit ==
    /\ cls \in Decls
    /\ slots = [i \in Inst |-> Mirror(cls)]
    /\ flast = [op |-> "init", inst |-> 0, arg |-> None, raise |-> "none",
                ret |-> None]

FrameNext ==
    \/ \E i \in Inst, v \in FrameValues :
            Assign(i, v) /\ UNCHANGED <<entityVars, managerVars, attachVars>>
    \/ \E i \in Inst :
            Read(i) /\ UNCHANGED <<entityVars, managerVars, attachVars>>

(* Properties of assignments, checked under FrameSpec *)

\* the keys of the instance __dict__ that belong to field f
OwnKeys(f) ==
    IF f.cls = "AttachmentField"
    THEN {f.model_file_attribute_name, f.id_field_name, f.url_field_name,
          f.filename_field_name, f.size_field_name}
    ELSE {f.name}

\* the errors of validation: type mismatch, invalid choice, invalid format
ValidationErrors ==
    {"FieldTypeError", "InvalidChoiceError", "InvalidDateFormatError",
     "InvalidRegexError"}

\* dicts a and b agree outside the keys of K
SameOutside(a, b, K) ==
    /\ (DOMAIN a) \ K = (DOMAIN b) \ K
    /\ \A k \in (DOMAIN a) \ K : a[k] = b[k]

\* a step that assigns the field of an instance changes what C27 allows
FrameStep ==
    flast'.op = "assign" =>
        /\ flast'.raise \in ValidationErrors => slots'[flast'.inst] = slots[flast'.inst]
        /\ SameOutside(slots[flast'.inst], slots'[flast'.inst], OwnKeys(cls))
        /\ \A j \in Inst \ {flast'.inst} : slots'[j] = slots[j]

(* C27: a field assignment that raises a validation error leaves the slot   *)
(* holding the value it had before; and any assignment, successful or       *)
(* failed, changes no other field slot of that instance and no slot of any  *)
(* other instance, including one that mirrors the same remote id.           *)
C27_Frame == [][FrameStep]_vars

\* an assignment failed on one instance after the other one was assigned
C27_Witness ==
    /\ flast.op = "assign"
    /\ flast.raise \in ValidationErrors
    /\ slots[1]["id"] = slots[2]["id"]
    /\ Stored(cls, slots[1]) # Stored(cls, slots[2])
    /\ Stored(cls, slots[flast.inst]) # None

(* side by side: whichever object is called first is the one the behaviour   *)
(* goes on calling.                                                          *)

CallsNext ==
    \/ \E h \in SaveResponses :
            /\ mlast.op = "init" /\ alast.op = "init"
            /\ DoSave(h)
            /\ UNCHANGED <<fieldVars, managerVars, attachVars>>
    \/ \E h \in DeleteResponses :
            /\ mlast.op = "init" /\ alast.op = "init"
            /\ DoDelete(h)
            /\ UNCHANGED <<fieldVars, managerVars, attachVars>>
    \/ \E x \in RemoteIds, h \in GetResponses :
            /\ elast.op = "init" /\ mlast.op = "init" /\ alast.op = "init"
            /\ DoGetById(x, h)
            /\ UNCHANGED <<fieldVars, entityVars, attachVars>>
    \/ \E h \in ListResponses :
            /\ elast.op = "init" /\ mlast.op = "init" /\ alast.op = "init"
            /\ DoLast(h)
            /\ UNCHANGED <<fieldVars, entityVars, attachVars>>
    \/ \E h \in UploadResponses :
            /\ elast.op = "init" /\ mlast.op = "init"
            /\ DoAttachmentSave(h)
            /\ UNCHANGED <<fieldVars, entityVars, managerVars>>

\* the last call of each object, as [reqs, raise, http], when it is one of
\* save(), delete(), get(id=...), last() and Attachment.save()
RemoteCalls ==
    (IF elast.op \in {"save", "delete"} THEN {elast} ELSE {})
    \cup (IF mlast.op \in {"get_id", "last"} THEN {mlast} ELSE {})
    \cup (IF alast.op = "save" THEN {alast} ELSE {})

(* C23: every call of Entity.save(), Entity.delete(), RecordManager.get(id), *)
(* RecordManager.last() and Attachment.save() issues at most one request to *)
(* the transport; when that request fails the call ends with the error and  *)
(* no second attempt is made.                                               *)
C23_NoRetry ==
    \A c \in RemoteCalls :
        /\ Len(c.reqs) <= 1
        /\ (Len(c.reqs) >= 1 /\ RaiseForStatus(c.http)) =>
                /\ c.raise \in {"HTTPError", "BadRequestError", "NotFoundError"}
                /\ Len(c.reqs) = 1

\* the one fetch of last() failed and last() ended with the transport's error
C23_Witness ==
    /\ mlast.op = "last"
    /\ RaiseForStatus(mlast.http)
    /\ Len(mlast.reqs) = 1
    /\ mlast.raise = "HTTPError"

-----------------------------------------------------------------------------
(* Properties of the Attachment field, checked under FieldSpec *)

\* the four companion slots of instance __dict__ d hold the attributes of file
SlotsMirror(f, d, file) ==
    /\ DictGet(d, f.id_field_name, None) = file.id
    /\ DictGet(d, f.url_field_name, None) = file.url
    /\ DictGet(d, f.filename_field_name, None) = file.filename
    /\ DictGet(d, f.size_field_name, None) = file.size

\* AttachmentFile(...) called with the values of the four companion slots of d
FileOfSlots(f, d) ==
    AttachmentFileInit(DictGet(d, f.id_field_name, None),
                       DictGet(d, f.url_field_name, None),
                       DictGet(d, f.size_field_name, None),
                       DictGet(d, f.filename_field_name, None), None)

\* one step of the Attachment field of instance 1 does what C24 says
AttachmentStep ==
    cls.cls = "AttachmentField" =>
        /\ (flast'.op \in {"construct", "assign"}
                /\ IsInstance(flast'.arg, "AttachmentFile")) =>
                /\ flast'.raise = "none"
                /\ Stored(cls, slots'[1]) = flast'.arg
                /\ SlotsMirror(cls, slots'[1], flast'.arg)
        /\ (flast'.op \in {"construct", "assign"} /\ flast'.arg # None
                /\ ~IsInstance(flast'.arg, "AttachmentFile")) =>
                /\ flast'.raise # "none"
                /\ slots' = slots
        /\ (flast'.op = "read" /\ LastWasSet /\ flast.raise = "none"
                /\ IsInstance(flast.arg, "AttachmentFile")) =>
                flast'.ret = flast.arg
        /\ flast'.op = "read" =>
                IF cls.model_file_attribute_name \in DOMAIN slots[1]
                THEN /\ flast'.ret = slots[1][cls.model_file_attribute_name]
                     /\ slots' = slots
                ELSE IF ~Truthy(DictGet(slots[1], cls.id_field_name, None))
                THEN /\ flast'.ret = None
                     /\ slots' = slots
                ELSE /\ flast'.ret = FileOfSlots(cls, slots[1])
                     /\ Stored(cls, slots'[1]) = flast'.ret
                     /\ \A k \in DOMAIN slots[1] : slots'[1][k] = slots[1][k]

RelatedTypeKey ==
    IF IsInstance(cls.related_object, "str") THEN cls.related_object.s
    ELSE Lower(NameChars(cls.related_object.cname))

\* the relation target is given as a string or as an entity type
TargetIsStringOrType ==
    /\ cls.cls = "LookupField"
    /\ cls.related_object.t \in {"str", "type"}

(* C26: the relationship target type a Lookup field serialises is the fixed *)
(* prefix followed by the related type key: the lowercased type name of the *)
(* related entity when the target is given as an entity type, the literal   *)
(* string when the target is given as a string.                            *)
C26_Original ==
    (flast.op = "to_zendesk" /\ TargetIsStringOrType) =>
        /\ flast.raise = "none"
        /\ flast.ret.relationship_target_type = sZenPrefix \o RelatedTypeKey

-----------------------------------------------------------------------------
(* Properties of the request paths, checked under Spec *)

\* the path of the one request of a call result
PathOf(r) == r.reqs[1].path

\* delete() was called on an entity that has an id
DeletedWithId == LastWasDelete /\ Truthy(elast.pre["id"])

(* C29: for one entity type, create, update, fetch by id and delete address *)
(* the same type key: the request of Entity.delete() for id X targets the   *)
(* same /custom_objects/{type_key}/records/X path as the update of save(),  *)
(* RecordManager.get(id=X) and RecordManager.delete(X).                     *)
C29_Original ==
    DeletedWithId =>
        /\ \A h \in SaveResponses :
                PathOf(elast) = PathOf(Save(decl, elast.pre, h))
        /\ \A h \in DeleteResponses, g \in GetResponses, u \in SaveResponses :
                /\ PathOf(DeleteOf(ModelName, elast.pre, h))
                        = PathOf(SaveOf(ModelName, ModelNameField, elast.pre, u))
                /\ PathOf(DeleteOf(ModelName, elast.pre, h))
                        = PathOf(GetById(elast.pre["id"], g))
                /\ PathOf(DeleteOf(ModelName, elast.pre, h))
                        = PathOf(ManagerDelete(elast.pre["id"], h))

-----------------------------------------------------------------------------
(* Properties of deletion, checked under Spec *)

\* the remote service has accepted a delete() of this entity
WasDeleted == deleted # None

\* the last delete() was made with an id and the remote service accepted it
DeleteAccepted ==
    /\ LastWasDelete
    /\ Truthy(elast.pre["id"])
    /\ ~RaiseForStatus(elast.http)

-----------------------------------------------------------------------------
(* Properties of the field declaration, checked under FieldSpec *)

\* a Regexp field was declared with a pattern that does not compile
BadPatternDeclared ==
    /\ flast.op = "declare"
    /\ ReCompile(flast.pattern).raise # "none"

(* C20: declaring a Regexp field with a pattern that does not compile fails *)
(* with RegexCompileError at declaration time, before any value is          *)
(* assigned; no Regexp field with an uncompilable pattern ever exists.      *)
C20_Original ==
    /\ BadPatternDeclared =>
            /\ flast.raise = "RegexCompileError"
            /\ \A i \in Inst : ~Alive(i)
    /\ cls.cls = "RegexpField" => ReCompile(cls.pattern).raise = "none"

-----------------------------------------------------------------------------
(* Properties of the attachment file, checked under AttachSpec *)

\* save() was called on an attachment whose saved was already true
SavedBeforeSave == alast.op = "save" /\ alast.before.saved

\* a save() on a saved attachment uploads nothing, changes nothing, raises nothing
SaveOnSavedIsNoOp ==
    SavedBeforeSave =>
        /\ alast.reqs = <<>>
        /\ alast.raise = "none"
        /\ att = alast.before

(* C16 as stated: save() is a no-op when saved is already true, so any      *)
(* number of consecutive save() calls performs at most one upload.          *)
C16_Original ==
    /\ SaveOnSavedIsNoOp
    /\ ahist.run <= 1

(* C16: save() is a no-op when saved is already true (no upload, no         *)
(* attribute changed, no error), so any number of consecutive save() calls  *)
(* performs at most one successful upload.                                  *)
C16_SaveIdempotent ==
    /\ SaveOnSavedIsNoOp
    /\ ahist.runok <= 1

\* a save() uploaded, and the save() after it found saved true
C16_Witness ==
    /\ SavedBeforeSave
    /\ ahist.runok = 1

(* C17: saved is false whenever local content has been set (at              *)
(* construction or through the setter) and not yet uploaded; saved turns    *)
(* true only through a successful upload that assigns the remote id.        *)
C17_Original ==
    /\ (att.content # None /\ ~ahist.uploaded) => ~att.saved
    /\ (alast.op # "init" /\ ~alast.before.saved /\ att.saved) =>
            /\ alast.op \in {"save", "save_with_ticket"}
            /\ alast.http.status \in 200..299
            /\ att.id = alast.http.json.d["upload"].d["attachment"].d["id"]
    /\ (alast.op = "content" /\ alast.raise = "none") => ~att.saved

\* save() was called on an unsaved attachment without a binary content
SaveWithoutBytes ==
    /\ alast.op = "save"
    /\ ~alast.before.saved
    /\ alast.before.content.t # "bytes"

(* C18: save() on an unsaved attachment whose content is absent or is not a *)
(* binary buffer fails, issues no upload, and leaves saved false and id,    *)
(* filename, url and size unchanged.                                        *)
C18_SaveNeedsBytes ==
    SaveWithoutBytes =>
        /\ alast.raise = "ValueError"
        /\ alast.reqs = <<>>
        /\ ~att.saved
        /\ att.id = alast.before.id
        /\ att.filename = alast.before.filename
        /\ att.url = alast.before.url
        /\ att.size = alast.before.size

\* save() failed on an attachment constructed without content
C18_Witness ==
    /\ SaveWithoutBytes
    /\ alast.before.content = None
    /\ alast.raise = "ValueError"

\* the transport accepted the upload (with a token) and the attach request
TransportAccepted ==
    /\ alast.http.status \in 200..299
    /\ "token" \in DOMAIN alast.http.json.d["upload"].d
    /\ alast.http_attach.status \in 200..299

(* C19: save_with_ticket on any attachment, uploaded in this session or     *)
(* constructed from an existing remote id, uploads only if it is not saved, *)
(* then issues one attach request carrying the upload token and the         *)
(* comment, and returns the attach response; the attach request never       *)
(* precedes the upload.                                                     *)
C19_Original ==
    ( /\ alast.op = "save_with_ticket"
      /\ TransportAccepted
      /\ alast.before.saved \/ alast.before.content.t = "bytes" ) =>
        /\ alast.raise = "none"
        /\ Len(alast.reqs) = (IF alast.before.saved THEN 1 ELSE 2)
        /\ alast.reqs[Len(alast.reqs)].method = "PUT"
        /\ alast.reqs[Len(alast.reqs)].body =
                [body |-> PyStr(sComment), uploads |-> <<att["token"]>>]
        /\ \A i \in 1..(Len(alast.reqs) - 1) : alast.reqs[i].method = "UPLOAD"
        /\ alast.ret = alast.http_attach.json

-----------------------------------------------------------------------------
(* Specifications.  Each takes the part of the program it is about from   *)
(* its initial state and holds the other parts idle.                        *)

\* a model class declaring one field; no entity, no manager call
InitFields == FieldsInit /\ EntityIdle /\ ManagerIdle /\ AttachIdle

\* the field descriptors on instances of one model class
FieldSpec == InitFields /\ [][FieldsNext]_vars

\* the serialisations of an instance of a model class declaring one field
ReprSpec == InitFields /\ [][ReprNext]_vars

\* a constructed attachment; no field instance, no entity, no manager call
InitAttach == AttachInit /\ FieldIdle /\ EntityIdle /\ ManagerIdle

\* the attachment file: content assignments, save() and save_with_ticket()
AttachSpec == InitAttach /\ [][AttachNext]_vars

\* an entity class with one instance; no field instance, no manager call
Init == EntityInit /\ FieldIdle /\ ManagerIdle /\ AttachIdle

\* the entity: assignments of its name, save() and delete()
Spec == Init /\ [][EntityNext]_vars

\* a model class with a DateTime field and one instance of it
InitDateTime == DateTimeInit /\ EntityIdle /\ ManagerIdle /\ AttachIdle

\* the DateTime field: assignments, writes to and reads from the wire keys
DateTimeSpec == InitDateTime /\ [][DateTimeNext]_vars

\* two instances of a model class, built from the same remote record
InitFrame == FrameInit /\ EntityIdle /\ ManagerIdle /\ AttachIdle

\* assignments to and reads of the field on either instance
FrameSpec == InitFrame /\ [][FrameNext]_vars

\* an entity, an attachment and the manager of the model class, none called yet
InitCalls == EntityInit /\ AttachInit /\ FieldIdle /\ ManagerIdle

\* the calls that reach the transport, on an entity, a manager, an attachment
CallsSpec == InitCalls /\ [][CallsNext]_vars

\* the manager of the model class before any call
InitManager == ManagerIdle /\ FieldIdle /\ EntityIdle /\ AttachIdle

\* the record manager: get by id and get by criteria
ManagerSpec == InitManager /\ [][ManagerNext]_vars

=============================================================================
